---- MODULE Spec2Model ----
(***************************************************************************)
(* A model of the run orchestration core of the Azure AI Assistant Tool:   *)
(*                                                                         *)
(*   - StreamEventHandler (sdk/.../management/stream_event_handler.py):    *)
(*     the translation of one run's provider event streams into the        *)
(*     lifecycle callbacks on_run_start / on_run_update / on_run_end, and  *)
(*     the tool-output resubmission started from on_tool_call_done.        *)
(*   - MainWindow (gui/main_window.py): the TaskManagerCallbacks           *)
(*     on_task_started / on_task_execute / on_task_completed /             *)
(*     on_task_failed and the table scheduled_task_threads they share      *)
(*     under thread_lock.                                                  *)
(*   - MainWindow: a submission, from on_user_input_complete or            *)
(*     handle_execution through process_input and process_assistant_input. *)
(*   - MainWindow: the processing state of the window, kept by             *)
(*     start_processing_input, stop_processing_input and                   *)
(*     on_cancel_run_button_clicked.                                       *)
(*   - MainWindow: the conversation view under the lifecycle callbacks     *)
(*     on_run_update / on_run_failed / on_run_end.                         *)
(*   - MainWindow: update_attachments_from_ui_to_thread, the               *)
(*     reconciliation of a thread's attachments with the submitted ones.   *)
(*   - MainWindow: set_active_ai_client_type and closeEvent, the two       *)
(*     handlers that save the conversation threads.                        *)
(*   - MainWindow: the assistant list, disabled and enabled by the         *)
(*     lifecycle callbacks of realtime runs.                               *)
(*   - MainWindow: the thread client the lifecycle callbacks of a run use  *)
(*     while the active client type changes.                               *)
(*   - AssistantConfigDialog: the instructions, the Instructions Editor    *)
(*     tab and save_configuration.                                         *)
(*   - AzureKeywordRecognizer: start_recognition, stop_recognition and     *)
(*     push_audio.                                                         *)
(*                                                                         *)
(* Each component has its own specification (SpecStream, SpecSched,        *)
(* SpecSubmit, SpecProcessing, SpecView, SpecRunUpdate, SpecStreamedRun,   *)
(* SpecAttach, SpecClientType, SpecAssistantList, SpecRunStore,            *)
(* SpecDialog, SpecKeyword); a specification leaves the variables of the   *)
(* other components unchanged.                                             *)
(***************************************************************************)
EXTENDS Integers, Sequences, FiniteSets, TLC

(***************************************************************************)
(* Bounds of the model.                                                    *)
(***************************************************************************)
\* text content blocks (text-created events) the provider produces in a run
MaxTexts == 2
\* text deltas the provider produces in a run
MaxDeltas == 2
\* tool calls the provider requests in a run, over all its steps and rounds
MaxToolCalls == 2
\* threads of the task scheduler that deliver callbacks concurrently
NumWorkers == 2
\* schedule ids the task scheduler uses
NumSchedIds == 2
\* callbacks the task scheduler delivers
MaxCallbacks == 3
\* requests of one task (1: a basic task; more: a batch or multi task)
MaxRequests == 2
\* assistants the assistant list offers
NumAssistants == 2
\* submissions (user inputs and scheduled requests) in a behaviour
MaxSubmissions == 2
\* runs whose processing signals reach the window
MaxRuns == 2
\* clicks on the cancel button
MaxClicks == 1
\* conversation threads of the thread client
NumThreads == 2
\* messages the provider holds for one thread
MaxMessages == 2
\* lifecycle callbacks delivered to the window
MaxSignals == 3
\* files that can be attached to the thread
NumFiles == 2
\* texts, besides the empty one, of the instructions and of their editor
NumTexts == 2
\* audio chunks pushed to the keyword recognizer, and their values
MaxPushes == 3
NumChunks == 2

VARIABLES
    \* ---- StreamEventHandler: one run, its stream and its resubmission streams
    hs,                 \* stack of live StreamEventHandler objects; the last one
                        \* consumes the stream that is currently delivering events
    runStatus,          \* status of the run at the provider ("none" before submission)
    streamError,        \* "none", "exception" or "timeout": how a stream broke
    calls,              \* tool calls of the run step in progress: <<[id, kind]>>
    lifecycle,          \* the on_run_start ("start") / on_run_end ("end") callbacks
                        \* emitted so far, in order
    chunkFlags,         \* is_first_message of each on_run_update("streaming"), in order
    nCompleted,         \* number of on_run_update("completed") callbacks
    nContent,           \* text-created and tool-call-created events delivered
    nTexts,             \* text-created events delivered
    nToolCalls,         \* tool calls requested so far (the last call id)
    nBatches,           \* tool-call batches delivered with requires_action
    nResumes,           \* calls of _handle_required_action
    lastBatch,          \* the batch of the last requires_action event
    lastResumeCalls,    \* tool_calls argument of the last _handle_required_action
    lastOutputs,        \* tool outputs of the last resume submission
    nFunctionCalls,     \* on_function_call_processed callbacks
    \* ---- MainWindow: the scheduled-task callbacks
    scheduled_task_threads,   \* schedule id -> thread name (a function on the bound ids)
    thread_lock,              \* the worker holding self.thread_lock, or Unlocked
    use_system_assistant_for_thread_name,
    threadStore,        \* conversation thread store: thread id -> version of its
                        \* current name; thread id's name is <<id, version>>
    worker,             \* per scheduler thread: the callback it runs and where it is
    nCallbacks,         \* callbacks the task scheduler has delivered
    createdFor,         \* schedule id -> threads created for it since its last cleanup
    epochThread,        \* schedule id -> id of the thread on_task_started created
                        \* for it since its last cleanup, or 0
    \* ---- MainWindow: one submission at a time
    thread_client_ready,   \* conversation_thread_clients[active_ai_client_type]
                           \* is not None
    sub,                \* the submission in progress and the statement of
                        \* process_input it has reached
    events,             \* what the last submission did so far, in order
    activeRuns,         \* assistants whose process_messages call is in progress
    outcome,            \* how process_input of the last submission ended:
                        \* "none" (not yet), "returned" or "raised"
    uiReport,           \* what on_user_input_complete did for the last user input
    fault,              \* a provider call of the last submission failed, or an
                        \* assistant of it has no client
    nSubmissions,       \* user inputs and scheduled requests so far
    \* ---- MainWindow: the processing state of the window
    assistants_processing,  \* assistant -> [user_input, scheduled_task]
    inputReadOnly,      \* conversation_view.inputField.isReadOnly()
    uiQueue,            \* start/stop-processing signals emitted by worker threads
                        \* and not yet delivered to their slot on the UI thread
    runs,               \* the calls of process_assistant_input so far: assistant,
                        \* scheduled flag, whether process_messages is in flight,
                        \* which of its two signals the window has handled, and
                        \* whether the cancel button was clicked while the window
                        \* showed the run as processing
    cancelTargets,      \* assistants the last cancel click sent cancel_processing to
    nClicks,            \* clicks on the cancel button so far
    reenabled,          \* run -> times a handler acting for the run made the
                        \* input field editable again
    \* ---- MainWindow: the conversation view
    displayed,          \* the current conversation thread of the thread client
                        \* (the thread the view displays), or 0
    view,               \* the items in the conversation view, in order
    transcript,         \* thread -> number of messages the provider holds for it
    lastSignal,         \* the last lifecycle callback delivered
    nSignals,           \* lifecycle callbacks delivered so far
    effects,            \* what the last lifecycle callback was given and did
    streamed,           \* the streamed run whose handler delivers callbacks
    \* ---- MainWindow: the attachments of one thread
    attached,           \* the attachments the thread configuration holds
    lastReconcile,      \* the last call of update_attachments_from_ui_to_thread:
                        \* what it was given, found, detached and deleted
    \* ---- MainWindow: the active client type and the saving of threads
    initialized,        \* deferred_init has run initialize_variables
    active_ai_client_type,
    conversation_thread_clients,
                        \* client type -> its thread client is not None
    unsaved,            \* client type -> its thread client holds threads that
                        \* differ from the saved ones
    lastHandler,        \* what the last set_active_ai_client_type or closeEvent did
    window_closed,       \* closeEvent has accepted the close
    \* ---- MainWindow: the assistant list during realtime runs
    rtRuns,             \* the runs: their assistant, whether its configuration
                        \* says realtime, and their lifecycle
    assistantListDisabled,
    lastTerminal,        \* the terminal lifecycle callback delivered last, when
                        \* no on_run_start followed it
    \* ---- MainWindow: the thread store the lifecycle callbacks use
    submittedRuns,      \* the runs: the client type active at their submission and
                        \* whether their terminal callback has been delivered
    lastResolve,         \* the last lifecycle callback: its run and the client type
                        \* whose thread client it used
    \* ---- AssistantConfigDialog: the instructions and their editor
    dialog,             \* the dialog: its assistant type, its current tab and the
                        \* texts of instructionsEdit and newInstructionsEdit
    lastDialogOp,        \* the last tab change or save: its tab, the two texts before
                        \* it, the editor's text after it, the instructions saved
    \* ---- AzureKeywordRecognizer
    recognizer,         \* the recognizer: is_started, the handlers connected to its
                        \* two signals, the chunks written to its audio stream
    kwHistory           \* whether the last start_recognition or stop_recognition
                        \* that returned was a start; the last push_audio

streamVars == <<hs, runStatus, streamError, calls, lifecycle, chunkFlags, nCompleted,
                nContent, nTexts, nToolCalls, nBatches, nResumes, lastBatch,
                lastResumeCalls, lastOutputs, nFunctionCalls>>

schedVars == <<scheduled_task_threads, thread_lock, use_system_assistant_for_thread_name,
               threadStore, worker, nCallbacks, createdFor, epochThread>>

submitVars == <<thread_client_ready, sub, events, activeRuns, outcome, uiReport,
                fault, nSubmissions>>

procVars == <<assistants_processing, inputReadOnly, uiQueue, runs, cancelTargets, nClicks,
              reenabled>>

viewVars == <<displayed, view, transcript, lastSignal, nSignals, effects, streamed>>

attachVars == <<attached, lastReconcile>>

typeVars ==
    <<initialized, active_ai_client_type, conversation_thread_clients, unsaved,
      lastHandler, window_closed>>

listVars == <<rtRuns, assistantListDisabled, lastTerminal>>

storeVars == <<submittedRuns, lastResolve>>

dialogVars == <<dialog, lastDialogOp>>

keywordVars == <<recognizer, kwHistory>>

vars == <<streamVars, schedVars, submitVars, procVars, viewVars, attachVars, typeVars, listVars, storeVars, dialogVars, keywordVars>>

\* What the actions of one component leave unchanged.
nonStreamVars == <<schedVars, submitVars, procVars, viewVars, attachVars, typeVars, listVars, storeVars, dialogVars, keywordVars>>
nonSchedVars == <<streamVars, submitVars, procVars, viewVars, attachVars, typeVars, listVars, storeVars, dialogVars, keywordVars>>
nonSubmitVars == <<streamVars, schedVars, procVars, viewVars, attachVars, typeVars, listVars, storeVars, dialogVars, keywordVars>>
nonProcVars == <<streamVars, schedVars, submitVars, viewVars, attachVars, typeVars, listVars, storeVars, dialogVars, keywordVars>>
nonViewVars == <<streamVars, schedVars, submitVars, procVars, attachVars, typeVars, listVars, storeVars, dialogVars, keywordVars>>
nonAttachVars == <<streamVars, schedVars, submitVars, procVars, viewVars, typeVars, listVars, storeVars, dialogVars, keywordVars>>
nonTypeVars == <<streamVars, schedVars, submitVars, procVars, viewVars, attachVars, listVars, storeVars, dialogVars, keywordVars>>
nonListVars == <<streamVars, schedVars, submitVars, procVars, viewVars, attachVars, typeVars, storeVars, dialogVars, keywordVars>>
nonStoreVars == <<streamVars, schedVars, submitVars, procVars, viewVars, attachVars, typeVars, listVars, dialogVars, keywordVars>>
nonDialogVars == <<streamVars, schedVars, submitVars, procVars, viewVars, attachVars, typeVars, listVars, storeVars, keywordVars>>
nonKeywordVars == <<streamVars, schedVars, submitVars, procVars, viewVars, attachVars, typeVars, listVars, storeVars, dialogVars>>

(***************************************************************************)
(* StreamEventHandler                                                      *)
(***************************************************************************)

\* What a requested tool call does when the client runs it: the function
\* returns ("ok"), is not in the function registry ("unknown"), or raises
\* ("throws").
CallKinds == {"ok", "unknown", "throws"}

TerminalStatuses == {"completed", "failed", "cancelled", "expired"}

\* current_run.required_action of a run that requires nothing.
NoAction == [type |-> "none", tool_calls |-> <<>>]

\* current_run.required_action of a run waiting for the outputs of `batch`.
SubmitToolOutputs(batch) == [type |-> "submit_tool_outputs", tool_calls |-> batch]

\* StreamEventHandler.__init__: the fields the callbacks read, and the state of
\* the vendor base class for this stream (current_tool_call: a tool call was
\* seen; text_open: a text block is being streamed; open: the stream has not
\* ended).
NewHandler(is_submit_tool_call) ==
    [is_submit_tool_call |-> is_submit_tool_call,
     is_started          |-> FALSE,
     is_first_message    |-> TRUE,
     current_tool_call   |-> FALSE,
     text_open           |-> FALSE,
     open                |-> TRUE]

Top == hs[Len(hs)]

\* hs with its last handler replaced by h
SetTop(h) == [hs EXCEPT ![Len(hs)] = h]

StreamOpen == hs # <<>> /\ Top.open

CountOf(seq, x) == Cardinality({i \in 1..Len(seq) : seq[i] = x})

\* on_text_created as it would be without the test of _is_started
OnTextCreatedStartsIgnoringStarted(h) == h.is_submit_tool_call = FALSE

\* on_text_created, the condition of line 78
OnTextCreatedStarts(h) == h.is_started = FALSE /\ h.is_submit_tool_call = FALSE

\* on_tool_call_created as it would be with the test of _is_started inverted
OnToolCallCreatedNeverStarts(h) == h.is_started = TRUE /\ h.is_submit_tool_call = FALSE

\* on_tool_call_created as it would be without the test of _is_submit_tool_call
OnToolCallCreatedStartsInResubmission(h) == h.is_started = FALSE

\* on_tool_call_created, the condition of line 96
OnToolCallCreatedStarts(h) == h.is_started = FALSE /\ h.is_submit_tool_call = FALSE

\* on_end as it would be without the test of _is_submit_tool_call
OnEndAlwaysEmitsRunEnd(h) == TRUE

\* on_end, the condition of line 59
OnEndEmitsRunEnd(h) == h.is_submit_tool_call = FALSE

\* on_text_delta, the is_first_message argument of line 86
FirstChunkFlag(h) == h.is_first_message

\* on_tool_call_done as it would be without the tests of required_action
ResumeOnEveryToolCallDone(ra) == TRUE

\* on_tool_call_done, the conditions of lines 119 and 121
RequiresResume(ra) == ra.type # "none" /\ ra.type = "submit_tool_outputs"

\* on_tool_call_done as it would be if it passed on the first tool call only
FirstToolCallOf(ra) == SubSeq(ra.tool_calls, 1, 1)

\* on_tool_call_done, the tool_calls of line 122
ToolCallsOf(ra) == ra.tool_calls

\* Tool Invocation Coordinator (AssistantClient._handle_required_action, not
\* among the sources): one output per call; a call whose function is unknown
\* or raises gets an error output.
ToolOutput(call) ==
    [tool_call_id |-> call.id,
     output       |-> CASE call.kind = "ok"      -> "result"
                        [] call.kind = "unknown" -> "error: unknown function"
                        [] OTHER                 -> "error: execution failed"]

ProcessToolCalls(tool_calls) == [i \in 1..Len(tool_calls) |-> ToolOutput(tool_calls[i])]

\* calls reported with on_function_call_processed: those whose function resolved
ResolvedCalls(tool_calls) ==
    Cardinality({i \in 1..Len(tool_calls) : tool_calls[i].kind # "unknown"})

\* on_tool_call_done(tool_call) with current_run.required_action = ra, called by
\* the handler h of the current stream.  When a resume is required,
\* _handle_required_action runs the calls, submits the outputs once and, when
\* the submission is accepted (ok), consumes the resumed run's events with a
\* new handler created with is_submit_tool_call = True; that stream runs inside
\* this call, so h stays on the stack below it.  A rejected submission raises
\* into h's stream.  status is the run's status as the event left it.
OnToolCallDone(h, ra, ok, status) ==
    IF RequiresResume(ra)
    THEN /\ nResumes' = nResumes + 1
         /\ lastResumeCalls' = ToolCallsOf(ra)
         /\ lastOutputs' = ProcessToolCalls(ToolCallsOf(ra))
         /\ nFunctionCalls' = nFunctionCalls + ResolvedCalls(ToolCallsOf(ra))
         /\ IF ok
            THEN /\ hs' = Append(SetTop(h), NewHandler(TRUE))
                 /\ runStatus' = "in_progress"
                 /\ streamError' = streamError
            ELSE /\ hs' = SetTop(h)
                 /\ runStatus' = status
                 /\ streamError' = "exception"
    ELSE /\ hs' = SetTop(h)
         /\ runStatus' = status
         /\ UNCHANGED <<nResumes, lastResumeCalls, lastOutputs, nFunctionCalls,
                        streamError>>

\* AssistantClient submits the run and creates the handler of its stream; the
\* stream opens with the run's created event, so current_run is set from here on.
CreateStream ==
    /\ runStatus = "none"
    /\ hs = <<>>
    /\ hs' = <<NewHandler(FALSE)>>
    /\ runStatus' = "in_progress"
    /\ UNCHANGED <<streamError, calls, lifecycle, chunkFlags, nCompleted, nContent,
                   nTexts, nToolCalls, nBatches, nResumes, lastBatch, lastResumeCalls,
                   lastOutputs, nFunctionCalls>>
    /\ UNCHANGED nonStreamVars

\* A text content block appears in the stream: on_text_created.
TextCreated ==
    /\ StreamOpen
    /\ ~Top.text_open
    /\ calls = <<>>
    /\ nTexts < MaxTexts
    /\ nTexts' = nTexts + 1
    /\ nContent' = nContent + 1
    /\ IF OnTextCreatedStarts(Top)
       THEN /\ lifecycle' = Append(lifecycle, "start")
            /\ hs' = SetTop([Top EXCEPT !.is_started = TRUE, !.text_open = TRUE])
       ELSE /\ lifecycle' = lifecycle
            /\ hs' = SetTop([Top EXCEPT !.text_open = TRUE])
    /\ UNCHANGED <<runStatus, streamError, calls, chunkFlags, nCompleted, nToolCalls,
                   nBatches, nResumes, lastBatch, lastResumeCalls, lastOutputs,
                   nFunctionCalls>>
    /\ UNCHANGED nonStreamVars

\* A text delta of the open text block: on_text_delta.
TextDelta ==
    /\ StreamOpen
    /\ Top.text_open
    /\ Len(chunkFlags) < MaxDeltas
    /\ chunkFlags' = Append(chunkFlags, FirstChunkFlag(Top))
    /\ hs' = SetTop([Top EXCEPT !.is_first_message = FALSE])
    /\ UNCHANGED <<runStatus, streamError, calls, lifecycle, nCompleted, nContent,
                   nTexts, nToolCalls, nBatches, nResumes, lastBatch, lastResumeCalls,
                   lastOutputs, nFunctionCalls>>
    /\ UNCHANGED nonStreamVars

\* The message is complete: on_text_done (logs only), then on_message_done.
MessageDone ==
    /\ StreamOpen
    /\ Top.text_open
    /\ nCompleted' = nCompleted + 1
    /\ hs' = SetTop([Top EXCEPT !.text_open = FALSE])
    /\ UNCHANGED <<runStatus, streamError, calls, lifecycle, chunkFlags, nContent,
                   nTexts, nToolCalls, nBatches, nResumes, lastBatch, lastResumeCalls,
                   lastOutputs, nFunctionCalls>>
    /\ UNCHANGED nonStreamVars

\* A step delta brings a new tool call.  The vendor base class first reports
\* the previous tool call of the stream, if any, as done (the run requires no
\* action at that point), then calls on_tool_call_created.
ToolCallCreated(kind) ==
    /\ StreamOpen
    /\ ~Top.text_open
    /\ nToolCalls < MaxToolCalls
    /\ nToolCalls' = nToolCalls + 1
    /\ nContent' = nContent + 1
    /\ calls' = Append(calls, [id |-> nToolCalls + 1, kind |-> kind])
    /\ LET created == IF OnToolCallCreatedStarts(Top)
                      THEN [Top EXCEPT !.is_started = TRUE, !.current_tool_call = TRUE]
                      ELSE [Top EXCEPT !.current_tool_call = TRUE]
       IN  /\ lifecycle' = IF OnToolCallCreatedStarts(Top)
                           THEN Append(lifecycle, "start") ELSE lifecycle
           /\ IF Top.current_tool_call
              THEN OnToolCallDone(created, NoAction, TRUE, runStatus)
              ELSE /\ hs' = SetTop(created)
                   /\ UNCHANGED <<nResumes, lastResumeCalls, lastOutputs, nFunctionCalls,
                                  runStatus, streamError>>
    /\ UNCHANGED <<chunkFlags, nCompleted, nTexts, nBatches, lastBatch>>
    /\ UNCHANGED nonStreamVars

\* The step of tool calls the provider runs itself (code interpreter, file
\* search) completes: on_tool_call_done while the run requires no action.
StepCompleted ==
    /\ StreamOpen
    /\ calls # <<>>
    /\ calls' = <<>>
    /\ OnToolCallDone(Top, NoAction, TRUE, runStatus)
    /\ UNCHANGED <<lifecycle, chunkFlags, nCompleted, nContent, nTexts, nToolCalls,
                   nBatches, lastBatch>>
    /\ UNCHANGED nonStreamVars

\* The run moves to requires_action with the step's function calls as its
\* batch, and the stream ends: on_tool_call_done with the required action set.
RequiresAction(ok) ==
    /\ StreamOpen
    /\ calls # <<>>
    /\ nBatches' = nBatches + 1
    /\ lastBatch' = calls
    /\ calls' = <<>>
    /\ OnToolCallDone([Top EXCEPT !.open = FALSE, !.text_open = FALSE],
                      SubmitToolOutputs(calls), ok, "requires_action")
    /\ UNCHANGED <<lifecycle, chunkFlags, nCompleted, nContent, nTexts, nToolCalls>>
    /\ UNCHANGED nonStreamVars

\* The run reaches a terminal status and the stream ends.  The vendor base
\* class reports the stream's last tool call, if any, as done once more.
RunTerminal(status) ==
    /\ StreamOpen
    /\ calls' = <<>>
    /\ LET closed == [Top EXCEPT !.open = FALSE, !.text_open = FALSE]
       IN  IF Top.current_tool_call
           THEN OnToolCallDone(closed, NoAction, TRUE, status)
           ELSE /\ hs' = SetTop(closed)
                /\ runStatus' = status
                /\ UNCHANGED <<nResumes, lastResumeCalls, lastOutputs, nFunctionCalls,
                               streamError>>
    /\ UNCHANGED <<lifecycle, chunkFlags, nCompleted, nContent, nTexts, nToolCalls,
                   nBatches, lastBatch>>
    /\ UNCHANGED nonStreamVars

\* The stream breaks: on_timeout (for a timeout) and on_exception, which log.
StreamBroken(kind) ==
    /\ StreamOpen
    /\ streamError' = kind
    /\ hs' = SetTop([Top EXCEPT !.open = FALSE, !.text_open = FALSE])
    /\ UNCHANGED <<runStatus, calls, lifecycle, chunkFlags, nCompleted, nContent,
                   nTexts, nToolCalls, nBatches, nResumes, lastBatch, lastResumeCalls,
                   lastOutputs, nFunctionCalls>>
    /\ UNCHANGED nonStreamVars

\* The stream of the top handler is over (normally or by an exception): on_end.
\* The handler is dropped; a resubmission stream returns into the
\* on_tool_call_done of the handler below, whose own stream has ended.
OnEnd ==
    /\ hs # <<>>
    /\ ~Top.open
    /\ lifecycle' = IF OnEndEmitsRunEnd(Top) THEN Append(lifecycle, "end") ELSE lifecycle
    /\ hs' = SubSeq(hs, 1, Len(hs) - 1)
    /\ UNCHANGED <<runStatus, streamError, calls, chunkFlags, nCompleted, nContent,
                   nTexts, nToolCalls, nBatches, nResumes, lastBatch, lastResumeCalls,
                   lastOutputs, nFunctionCalls>>
    /\ UNCHANGED nonStreamVars

InitStream ==
    /\ hs = <<>>
    /\ runStatus = "none"
    /\ streamError = "none"
    /\ calls = <<>>
    /\ lifecycle = <<>>
    /\ chunkFlags = <<>>
    /\ nCompleted = 0
    /\ nContent = 0
    /\ nTexts = 0
    /\ nToolCalls = 0
    /\ nBatches = 0
    /\ nResumes = 0
    /\ lastBatch = <<>>
    /\ lastResumeCalls = <<>>
    /\ lastOutputs = <<>>
    /\ nFunctionCalls = 0

NextStream ==
    \/ CreateStream
    \/ TextCreated
    \/ TextDelta
    \/ MessageDone
    \/ \E kind \in CallKinds : ToolCallCreated(kind)
    \/ StepCompleted
    \/ \E ok \in BOOLEAN : RequiresAction(ok)
    \/ \E status \in TerminalStatuses : RunTerminal(status)
    \/ \E kind \in {"exception", "timeout"} : StreamBroken(kind)
    \/ OnEnd

(***************************************************************************)
(* MainWindow: TaskManagerCallbacks and scheduled_task_threads             *)
(***************************************************************************)

Workers == 1..NumWorkers

SchedIds == 1..NumSchedIds

\* threading.Lock() as created: held by nobody
Unlocked == 0

\* The thread name None: what scheduled_task_threads.get returns for an
\* unbound schedule id.  The other names are <<thread id, version>>.
NoName == <<0, 0>>

Idle == [pc |-> "idle", sid |-> 0, thread_name |-> NoName, requests |-> 0]

\* Program points of the callbacks that lie inside `with self.thread_lock`.
LockedPcs == {"started_check", "started_create", "exec_lookup", "exec_process",
              "cleanup_delete"}

\* Conversation Thread Store (ConversationThreadConfig.get_thread_id_by_name,
\* not among the sources): the id of the thread that has this name now, or 0.
ThreadIdByName(name) ==
    IF name[1] \in 1..Len(threadStore) /\ threadStore[name[1]] = name[2]
    THEN name[1] ELSE 0

\* Conversation Thread Store (set_conversation_thread_name, not among the
\* sources): the thread named old_name gets a new unique name.
RenamedStore(old_name) ==
    [threadStore EXCEPT ![ThreadIdByName(old_name)] = @ + 1]

\* Mutation of RenamedName: handle_execution goes on with the name the
\* thread had before the renaming.
RenamedNameStale(old_name) == old_name

\* update_conversation_title, lines 525-536: the unique title that
\* set_conversation_thread_name returns for the renamed thread.
RenamedName(old_name) == <<old_name[1], old_name[2] + 1>>

\* scheduled_task_threads.get(schedule_id), line 711
BoundName(sid) ==
    IF sid \in DOMAIN scheduled_task_threads THEN scheduled_task_threads[sid] ELSE NoName

\* scheduled_task_threads[schedule_id] = thread_name, lines 681 and 723
Bind(sid, name) ==
    [s \in DOMAIN scheduled_task_threads \cup {sid} |->
        IF s = sid THEN name ELSE scheduled_task_threads[s]]

\* del scheduled_task_threads[schedule_id], line 732
Unbind(sid) ==
    [s \in DOMAIN scheduled_task_threads \ {sid} |-> scheduled_task_threads[s]]

\* `with self.thread_lock` is entered by worker w
Acquire(w) == thread_lock = Unlocked /\ thread_lock' = w

\* Mutation of Release: the lock stays with the worker that took it.
ReleaseKeepingLock == UNCHANGED thread_lock

\* `with self.thread_lock` is left, by its last statement or by an exception
Release == thread_lock' = Unlocked

SetWorker(w, rec) == worker' = [worker EXCEPT ![w] = rec]

\* The settings dialog sets use_system_assistant_for_thread_name.
SetUseSystemAssistant(b) ==
    /\ use_system_assistant_for_thread_name # b
    /\ \A w \in Workers : worker[w].pc = "idle"
    /\ use_system_assistant_for_thread_name' = b
    /\ UNCHANGED <<scheduled_task_threads, thread_lock, threadStore, worker, nCallbacks,
                   createdFor, epochThread>>
    /\ UNCHANGED nonSchedVars

\* ---- on_task_started(task, schedule_id)

TaskStartedCall(w, sid) ==
    /\ worker[w].pc = "idle"
    /\ nCallbacks < MaxCallbacks
    /\ nCallbacks' = nCallbacks + 1
    /\ SetWorker(w, [Idle EXCEPT !.pc = "started_acquire", !.sid = sid])
    /\ UNCHANGED <<scheduled_task_threads, thread_lock, use_system_assistant_for_thread_name,
                   threadStore, createdFor, epochThread>>
    /\ UNCHANGED nonSchedVars

\* on_task_started as it would be without `with self.thread_lock`
TaskStartedNoLock(w) ==
    /\ worker[w].pc = "started_acquire"
    /\ thread_lock' = thread_lock
    /\ SetWorker(w, [worker[w] EXCEPT !.pc = "started_check"])
    /\ UNCHANGED <<scheduled_task_threads, use_system_assistant_for_thread_name,
                   threadStore, nCallbacks, createdFor, epochThread>>
    /\ UNCHANGED nonSchedVars

\* line 678
TaskStartedAcquire(w) ==
    /\ worker[w].pc = "started_acquire"
    /\ Acquire(w)
    /\ SetWorker(w, [worker[w] EXCEPT !.pc = "started_check"])
    /\ UNCHANGED <<scheduled_task_threads, use_system_assistant_for_thread_name,
                   threadStore, nCallbacks, createdFor, epochThread>>
    /\ UNCHANGED nonSchedVars

\* line 679: a bound schedule id leaves the `with` at once
TaskStartedCheck(w) ==
    /\ worker[w].pc = "started_check"
    /\ IF worker[w].sid \notin DOMAIN scheduled_task_threads
       THEN /\ SetWorker(w, [worker[w] EXCEPT !.pc = "started_create"])
            /\ UNCHANGED thread_lock
       ELSE /\ SetWorker(w, Idle)
            /\ Release
    /\ UNCHANGED <<scheduled_task_threads, use_system_assistant_for_thread_name,
                   threadStore, nCallbacks, createdFor, epochThread>>
    /\ UNCHANGED nonSchedVars

\* lines 680-683: setup_conversation_thread(True) creates a thread, the table
\* binds its name, and the `with` is left.  ok: the thread is created; else
\* setup_conversation_thread raises (no thread client, line 426, or a failed
\* creation), which leaves the `with` and ends the callback.
TaskStartedCreate(w, ok) ==
    /\ worker[w].pc = "started_create"
    /\ LET sid == worker[w].sid
           id  == Len(threadStore) + 1
       IN  IF ok
           THEN /\ threadStore' = Append(threadStore, 1)
                /\ scheduled_task_threads' = Bind(sid, <<id, 1>>)
                /\ createdFor' = [createdFor EXCEPT ![sid] = @ + 1]
                /\ epochThread' = [epochThread EXCEPT ![sid] = id]
           ELSE UNCHANGED <<threadStore, scheduled_task_threads, createdFor, epochThread>>
    /\ SetWorker(w, Idle)
    /\ Release
    /\ UNCHANGED <<use_system_assistant_for_thread_name, nCallbacks>>
    /\ UNCHANGED nonSchedVars

\* ---- on_task_execute(task, schedule_id): handle_execution for each request

TaskExecuteCall(w, sid, n) ==
    /\ worker[w].pc = "idle"
    /\ nCallbacks < MaxCallbacks
    /\ nCallbacks' = nCallbacks + 1
    /\ SetWorker(w, [Idle EXCEPT !.pc = "exec_acquire", !.sid = sid, !.requests = n])
    /\ UNCHANGED <<scheduled_task_threads, thread_lock, use_system_assistant_for_thread_name,
                   threadStore, createdFor, epochThread>>
    /\ UNCHANGED nonSchedVars

\* line 710
ExecAcquire(w) ==
    /\ worker[w].pc = "exec_acquire"
    /\ Acquire(w)
    /\ SetWorker(w, [worker[w] EXCEPT !.pc = "exec_lookup"])
    /\ UNCHANGED <<scheduled_task_threads, use_system_assistant_for_thread_name,
                   threadStore, nCallbacks, createdFor, epochThread>>
    /\ UNCHANGED nonSchedVars

\* handle_execution as it would be if it dropped the binding it has used
BindingDroppedAfterLookup(sid, name) == Unbind(sid)

\* The table after line 723 of handle_execution
BindingAfterLookup(sid, name) == Bind(sid, name)

\* lines 711-723: the name bound to the schedule id (None when unbound), the
\* new title when titles are generated, and the table's entry set to the
\* result.  update_conversation_title raises for the name None (line 531),
\* which leaves the `with` and ends the callback.
ExecLookup(w) ==
    /\ worker[w].pc = "exec_lookup"
    /\ LET sid  == worker[w].sid
           name == BoundName(sid)
       IN  IF use_system_assistant_for_thread_name
           THEN IF name = NoName
                THEN /\ SetWorker(w, Idle)
                     /\ Release
                     /\ UNCHANGED <<scheduled_task_threads, threadStore>>
                ELSE /\ threadStore' = RenamedStore(name)
                     /\ scheduled_task_threads' = BindingAfterLookup(sid, RenamedName(name))
                     /\ SetWorker(w, [worker[w] EXCEPT !.pc = "exec_process",
                                                       !.thread_name = RenamedName(name)])
                     /\ UNCHANGED thread_lock
           ELSE /\ scheduled_task_threads' = BindingAfterLookup(sid, name)
                /\ SetWorker(w, [worker[w] EXCEPT !.pc = "exec_process",
                                                  !.thread_name = name])
                /\ UNCHANGED <<thread_lock, threadStore>>
    /\ UNCHANGED <<use_system_assistant_for_thread_name, nCallbacks, createdFor, epochThread>>
    /\ UNCHANGED nonSchedVars

\* line 727 and the end of the `with`: process_input is over.  It is called
\* without attachments_dicts, so its first step raises (line 479) and its
\* except block raises in turn (line 458, see ExceptOutcome): the exception
\* leaves the `with`, handle_execution and the loop of on_task_execute, and
\* the remaining requests of the task are not handled.
ExecProcessed(w) ==
    /\ worker[w].pc = "exec_process"
    /\ Release
    /\ SetWorker(w, Idle)
    /\ UNCHANGED <<scheduled_task_threads, use_system_assistant_for_thread_name,
                   threadStore, nCallbacks, createdFor, epochThread>>
    /\ UNCHANGED nonSchedVars

\* ---- on_task_completed / on_task_failed: cleanup_scheduled_thread

TaskEndedCall(w, sid, how) ==
    /\ worker[w].pc = "idle"
    /\ how \in {"completed", "failed"}
    /\ nCallbacks < MaxCallbacks
    /\ nCallbacks' = nCallbacks + 1
    /\ SetWorker(w, [Idle EXCEPT !.pc = "cleanup_acquire", !.sid = sid])
    /\ UNCHANGED <<scheduled_task_threads, thread_lock, use_system_assistant_for_thread_name,
                   threadStore, createdFor, epochThread>>
    /\ UNCHANGED nonSchedVars

\* line 730
CleanupAcquire(w) ==
    /\ worker[w].pc = "cleanup_acquire"
    /\ Acquire(w)
    /\ SetWorker(w, [worker[w] EXCEPT !.pc = "cleanup_delete"])
    /\ UNCHANGED <<scheduled_task_threads, use_system_assistant_for_thread_name,
                   threadStore, nCallbacks, createdFor, epochThread>>
    /\ UNCHANGED nonSchedVars

\* lines 731-732 and the end of the `with`
CleanupDelete(w) ==
    /\ worker[w].pc = "cleanup_delete"
    /\ LET sid == worker[w].sid
       IN  /\ scheduled_task_threads' =
                 IF sid \in DOMAIN scheduled_task_threads
                 THEN Unbind(sid) ELSE scheduled_task_threads
           /\ createdFor' = [createdFor EXCEPT ![sid] = 0]
           /\ epochThread' = [epochThread EXCEPT ![sid] = 0]
    /\ SetWorker(w, Idle)
    /\ Release
    /\ UNCHANGED <<use_system_assistant_for_thread_name, threadStore, nCallbacks>>
    /\ UNCHANGED nonSchedVars

InitSched ==
    /\ scheduled_task_threads = << >>
    /\ thread_lock = Unlocked
    /\ use_system_assistant_for_thread_name = FALSE
    /\ threadStore = <<>>
    /\ worker = [w \in Workers |-> Idle]
    /\ nCallbacks = 0
    /\ createdFor = [s \in SchedIds |-> 0]
    /\ epochThread = [s \in SchedIds |-> 0]

NextSched ==
    \/ \E b \in BOOLEAN : SetUseSystemAssistant(b)
    \/ \E w \in Workers, sid \in SchedIds : TaskStartedCall(w, sid)
    \/ \E w \in Workers : TaskStartedAcquire(w)
    \/ \E w \in Workers : TaskStartedCheck(w)
    \/ \E w \in Workers, ok \in BOOLEAN : TaskStartedCreate(w, ok)
    \/ \E w \in Workers, sid \in SchedIds, n \in 1..MaxRequests : TaskExecuteCall(w, sid, n)
    \/ \E w \in Workers : ExecAcquire(w)
    \/ \E w \in Workers : ExecLookup(w)
    \/ \E w \in Workers : ExecProcessed(w)
    \/ \E w \in Workers, sid \in SchedIds, how \in {"completed", "failed"} :
          TaskEndedCall(w, sid, how)
    \/ \E w \in Workers : CleanupAcquire(w)
    \/ \E w \in Workers : CleanupDelete(w)

(***************************************************************************)
(* MainWindow: a submission                                                *)
(*                                                                         *)
(* One submission is followed from the UI handler or the scheduler         *)
(* callback that makes it to the end of process_input.                     *)
(***************************************************************************)
Assistants == 1..NumAssistants

\* What get_selected_assistants can return: the checked assistants, each once.
Selections ==
    {sel \in UNION {[1..n -> Assistants] : n \in 0..NumAssistants} :
        \A i, j \in DOMAIN sel : sel[i] = sel[j] => i = j}

NoSubmission ==
    [pc |-> "idle", assistants |-> <<>>, k |-> 0, scheduled |-> FALSE, att_none |-> FALSE]

\* An entry of events: a step of process_input that succeeded ("reconciled",
\* "appended", "fetched", "published"), a signal it emitted ("start",
\* "stop", "error") or a call of process_messages ("run").
Ev(ev, a, scheduled) == [ev |-> ev, a |-> a, scheduled |-> scheduled]

\* Mutation of SetupConversationThreadRaises: the client is not checked.
SetupNeverRaises == FALSE

\* setup_conversation_thread, lines 422-426: without a thread client for the
\* active client type it raises ValueError.
SetupConversationThreadRaises == ~thread_client_ready

\* The provider calls on_user_input_complete makes itself: the thread it
\* creates when none is selected (lines 432-433) and the generated title
\* (line 378).
UiProviderCalls(selected) ==
    (IF selected THEN {} ELSE {"create_thread"})
        \cup (IF use_system_assistant_for_thread_name THEN {"title"} ELSE {})

\* on_user_input_complete(user_input), lines 367-399.  ok: the provider
\* calls of the handler succeed.
OnUserInputComplete(assistants, realtime, selected, ok) ==
    /\ sub.pc = "idle"
    /\ nSubmissions < MaxSubmissions
    /\ nSubmissions' = nSubmissions + 1
    /\ IF assistants = <<>>
       THEN \* lines 370-372: the warning box
            /\ uiReport' = [input |-> TRUE, assistants |-> assistants, error |-> TRUE,
                            job |-> FALSE, calls |-> {}]
            /\ UNCHANGED <<sub, events, outcome, fault>>
       ELSE IF SetupConversationThreadRaises
       THEN \* lines 397-399: the error signal
            /\ uiReport' = [input |-> TRUE, assistants |-> assistants, error |-> TRUE,
                            job |-> FALSE, calls |-> {}]
            /\ UNCHANGED <<sub, events, outcome, fault>>
       ELSE IF ~ok
       THEN /\ UiProviderCalls(selected) # {}
            /\ uiReport' = [input |-> TRUE, assistants |-> assistants, error |-> TRUE,
                            job |-> FALSE,
                            calls |-> UiProviderCalls(selected)]
            /\ UNCHANGED <<sub, events, outcome, fault>>
       ELSE \* lines 382/393: executor.submit
            /\ uiReport' = [input |-> TRUE, assistants |-> assistants, error |-> FALSE,
                            job |-> TRUE,
                            calls |-> IF realtime
                                      THEN UiProviderCalls(selected) \ {"title"}
                                      ELSE UiProviderCalls(selected)]
            /\ sub' = [pc |-> IF realtime THEN "realtime" ELSE "reconcile",
                       assistants |-> assistants, k |-> 0, scheduled |-> FALSE,
                       att_none |-> FALSE]
            /\ events' = <<>>
            /\ outcome' = "none"
            /\ fault' = FALSE
    /\ UNCHANGED <<thread_client_ready, activeRuns>>
    /\ UNCHANGED nonSubmitVars

\* handle_execution, lines 725-727: process_input(user_request,
\* [assistant_name], thread_name, True), without attachments_dicts.
HandleExecution(a) ==
    /\ sub.pc = "idle"
    /\ nSubmissions < MaxSubmissions
    /\ nSubmissions' = nSubmissions + 1
    /\ sub' = [pc |-> "reconcile", assistants |-> <<a>>, k |-> 0, scheduled |-> TRUE,
               att_none |-> TRUE]
    /\ events' = <<>>
    /\ outcome' = "none"
    /\ fault' = FALSE
    /\ UNCHANGED <<thread_client_ready, activeRuns, uiReport>>
    /\ UNCHANGED nonSubmitVars

\* process_realtime_text_input, lines 461-474
ProcessRealtimeTextInput(ok) ==
    /\ sub.pc = "realtime"
    /\ events' = IF ok
                 THEN <<Ev("rt_appended", 0, FALSE)>>
                        \o [i \in 1..Len(sub.assistants) |->
                               Ev("respond", sub.assistants[i], FALSE)]
                 ELSE <<Ev("error", 0, FALSE)>>
    /\ outcome' = "returned"
    /\ sub' = NoSubmission
    /\ fault' = (fault \/ ~ok)
    /\ UNCHANGED <<thread_client_ready, activeRuns, uiReport, nSubmissions>>
    /\ UNCHANGED nonSubmitVars

\* Mutation of StepAfter: the runs start before the transcript is fetched.
StepAfterSkippingFetch(pc) ==
    IF pc = "reconcile" THEN "append" ELSE "loop"

\* The statements of process_input in their order, lines 445-452:
\* update_attachments_from_ui_to_thread, create_thread_message (with
\* update_attachments_in_ui_from_thread), retrieve_conversation (with
\* update_conversation_messages), the loop over the assistants.
StepAfter(pc) ==
    IF pc = "reconcile" THEN "append"
    ELSE IF pc = "append" THEN "fetch"
    ELSE "loop"

\* Mutation of ExceptEvents: the except block emits the error signal only.
ExceptEventsWithoutStop(s) == <<Ev("error", 0, s.scheduled)>>

\* The except block of process_input, lines 455-458: the error signal, then
\* the stop-processing signal for assistant_name, the variable of the loop.
\* Before the first iteration the variable is unbound, and evaluating it
\* raises before anything is emitted.
ExceptEvents(s) ==
    <<Ev("error", 0, s.scheduled)>>
        \o (IF s.k > 0 THEN <<Ev("stop", s.assistants[s.k], s.scheduled)>> ELSE <<>>)

\* How process_input ends after its except block, line 458: the
\* UnboundLocalError of assistant_name leaves process_input.
ExceptOutcome(s) == IF s.k > 0 THEN "returned" ELSE "raised"

\* Mutation of Except: the loop over the assistants goes on after the except
\* block.
ExceptResumingLoop ==
    /\ events' = events \o ExceptEvents(sub)
    /\ outcome' = outcome
    /\ sub' = [sub EXCEPT !.pc = "loop"]
    /\ activeRuns' = {}

\* A statement of process_input raised: lines 455-459.
Except ==
    /\ events' = events \o ExceptEvents(sub)
    /\ outcome' = ExceptOutcome(sub)
    /\ sub' = NoSubmission
    /\ activeRuns' = {}

\* Lines 442-445.  Without a thread client line 443 raises; without
\* attachments_dicts line 479 does.
Reconcile(ok) ==
    /\ sub.pc = "reconcile"
    /\ IF thread_client_ready /\ ~sub.att_none /\ ok
       THEN /\ events' = Append(events, Ev("reconciled", 0, sub.scheduled))
            /\ sub' = [sub EXCEPT !.pc = StepAfter("reconcile")]
            /\ UNCHANGED <<outcome, activeRuns>>
       ELSE Except
    /\ fault' = (fault \/ ~ok)
    /\ UNCHANGED <<thread_client_ready, uiReport, nSubmissions>>
    /\ UNCHANGED nonSubmitVars

\* Lines 446-447
CreateThreadMessage(ok) ==
    /\ sub.pc = "append"
    /\ IF ok
       THEN /\ events' = Append(events, Ev("appended", 0, sub.scheduled))
            /\ sub' = [sub EXCEPT !.pc = StepAfter("append")]
            /\ UNCHANGED <<outcome, activeRuns>>
       ELSE Except
    /\ fault' = (fault \/ ~ok)
    /\ UNCHANGED <<thread_client_ready, uiReport, nSubmissions>>
    /\ UNCHANGED nonSubmitVars

\* Lines 449-450
RefreshConversation(ok) ==
    /\ sub.pc = "fetch"
    /\ IF ok
       THEN /\ events' = events \o <<Ev("fetched", 0, sub.scheduled),
                                     Ev("published", 0, sub.scheduled)>>
            /\ sub' = [sub EXCEPT !.pc = StepAfter("fetch")]
            /\ UNCHANGED <<outcome, activeRuns>>
       ELSE Except
    /\ fault' = (fault \/ ~ok)
    /\ UNCHANGED <<thread_client_ready, uiReport, nSubmissions>>
    /\ UNCHANGED nonSubmitVars

\* Mutation of CanStartNext: the loop does not wait for process_messages.
CanStartNextWhileRunning(s) == s.pc \in {"loop", "running"}

\* Lines 452-453: the loop calls process_assistant_input and goes on when
\* the call has returned.
CanStartNext(s) == s.pc = "loop"

\* process_assistant_input up to the call of process_messages, lines
\* 513-521; without a client for the assistant, the whole of it.
AssistantStart(has_client) ==
    /\ CanStartNext(sub)
    /\ sub.k < Len(sub.assistants)
    /\ LET a == sub.assistants[sub.k + 1]
       IN  IF has_client
           THEN /\ events' = events \o <<Ev("start", a, sub.scheduled),
                                         Ev("run", a, sub.scheduled)>>
                /\ activeRuns' = activeRuns \cup {a}
                /\ sub' = [sub EXCEPT !.pc = "running", !.k = @ + 1]
           ELSE /\ events' = events \o <<Ev("start", a, sub.scheduled),
                                         Ev("stop", a, sub.scheduled)>>
                /\ sub' = [sub EXCEPT !.k = @ + 1]
                /\ UNCHANGED activeRuns
    /\ fault' = (fault \/ ~has_client)
    /\ UNCHANGED <<thread_client_ready, outcome, uiReport, nSubmissions>>
    /\ UNCHANGED nonSubmitVars

\* process_messages returns (line 523 follows) or raises (the except block
\* of process_input follows).
AssistantReturn(ok) ==
    /\ sub.pc = "running"
    /\ IF ok
       THEN /\ events' = Append(events, Ev("stop", sub.assistants[sub.k], sub.scheduled))
            /\ activeRuns' = activeRuns \ {sub.assistants[sub.k]}
            /\ sub' = [sub EXCEPT !.pc = "loop"]
            /\ UNCHANGED outcome
       ELSE Except
    /\ fault' = (fault \/ ~ok)
    /\ UNCHANGED <<thread_client_ready, uiReport, nSubmissions>>
    /\ UNCHANGED nonSubmitVars

\* The loop of process_input is over, and process_input returns.
ProcessInputReturn ==
    /\ sub.pc = "loop"
    /\ sub.k = Len(sub.assistants)
    /\ outcome' = "returned"
    /\ sub' = NoSubmission
    /\ UNCHANGED <<thread_client_ready, events, activeRuns, uiReport, fault, nSubmissions>>
    /\ UNCHANGED nonSubmitVars

\* initialize_variables, lines 96-103: the thread client of the active
\* client type, or None when it could not be created.
InitSubmit ==
    /\ thread_client_ready \in BOOLEAN
    /\ sub = NoSubmission
    /\ events = <<>>
    /\ activeRuns = {}
    /\ outcome = "none"
    /\ uiReport = [input |-> FALSE, assistants |-> <<>>, error |-> FALSE, job |-> FALSE,
                   calls |-> {}]
    /\ fault = FALSE
    /\ nSubmissions = 0

NextSubmit ==
    \/ \E b \in BOOLEAN : SetUseSystemAssistant(b)
    \/ \E assistants \in Selections, realtime, selected, ok \in BOOLEAN :
          OnUserInputComplete(assistants, realtime, selected, ok)
    \/ \E a \in Assistants : HandleExecution(a)
    \/ \E ok \in BOOLEAN : ProcessRealtimeTextInput(ok)
    \/ \E ok \in BOOLEAN : Reconcile(ok)
    \/ \E ok \in BOOLEAN : CreateThreadMessage(ok)
    \/ \E ok \in BOOLEAN : RefreshConversation(ok)
    \/ \E has_client \in BOOLEAN : AssistantStart(has_client)
    \/ \E ok \in BOOLEAN : AssistantReturn(ok)
    \/ ProcessInputReturn

(***************************************************************************)
(* MainWindow: the processing state of the window                          *)
(*                                                                         *)
(* Worker threads emit the start- and stop-processing signals around       *)
(* process_messages; the slots and the cancel button's handler run on the  *)
(* UI thread, one at a time.                                               *)
(***************************************************************************)
RunIds == 1..Len(runs)

\* A signal in uiQueue.
Signal(sig, r) == [sig |-> sig, run |-> r]

\* The assistant has a processing flag set.
Processing(a) ==
    /\ a \in DOMAIN assistants_processing
    /\ (assistants_processing[a].user_input \/ assistants_processing[a].scheduled_task)

\* Runs whose start signal the window has handled and whose stop signal it
\* has not.
ShownRuns == {r \in RunIds : runs[r].ui = "shown"}

\* process_assistant_input, lines 513-521: the start signal is emitted and
\* process_messages called.
BeginRun(a, scheduled) ==
    /\ Len(runs) < MaxRuns
    /\ runs' = Append(runs, [a |-> a, scheduled |-> scheduled, in_flight |-> TRUE,
                             ui |-> "new", cancelled |-> FALSE])
    /\ uiQueue' = Append(uiQueue, Signal("start", Len(runs) + 1))
    /\ reenabled' = Append(reenabled, 0)
    /\ UNCHANGED <<assistants_processing, inputReadOnly, cancelTargets, nClicks>>
    /\ UNCHANGED nonProcVars

\* process_messages is over, by itself or after a cancel request, and the
\* stop signal is emitted: line 523, or line 458 when it raised.
EndRun(r) ==
    /\ r \in RunIds
    /\ runs[r].in_flight
    /\ runs' = [runs EXCEPT ![r].in_flight = FALSE]
    /\ uiQueue' = Append(uiQueue, Signal("stop", r))
    /\ UNCHANGED <<assistants_processing, inputReadOnly, cancelTargets, nClicks, reenabled>>
    /\ UNCHANGED nonProcVars

\* start_processing_input, lines 343-353: the entry of the assistant, made
\* when missing, with the flag of the kind of run set.
FlagsAfterStart(a, scheduled) ==
    LET old == IF a \in DOMAIN assistants_processing
               THEN assistants_processing[a]
               ELSE [user_input |-> FALSE, scheduled_task |-> FALSE]
    IN  [b \in DOMAIN assistants_processing \cup {a} |->
            IF b # a THEN assistants_processing[b]
            ELSE IF scheduled THEN [old EXCEPT !.scheduled_task = TRUE]
                 ELSE [old EXCEPT !.user_input = TRUE]]

\* Mutation of FlagsAfterStop: both flags of the assistant are cleared.
FlagsAfterStopClearingBoth(a, scheduled) ==
    IF a \notin DOMAIN assistants_processing THEN assistants_processing
    ELSE [assistants_processing EXCEPT
             ![a] = [user_input |-> FALSE, scheduled_task |-> FALSE]]

\* stop_processing_input, lines 358-365: the flag of the kind of run is
\* cleared; the entry stays.
FlagsAfterStop(a, scheduled) ==
    IF a \notin DOMAIN assistants_processing THEN assistants_processing
    ELSE IF scheduled
         THEN [assistants_processing EXCEPT ![a].scheduled_task = FALSE]
         ELSE [assistants_processing EXCEPT ![a].user_input = FALSE]

\* start_processing_input(assistant_name, is_scheduled_task), lines 340-353
StartProcessingInput ==
    /\ uiQueue # <<>>
    /\ Head(uiQueue).sig = "start"
    /\ LET r == Head(uiQueue).run
       IN  /\ inputReadOnly' = TRUE
           /\ assistants_processing' = FlagsAfterStart(runs[r].a, runs[r].scheduled)
           /\ runs' = [runs EXCEPT ![r].ui = "shown"]
    /\ uiQueue' = Tail(uiQueue)
    /\ UNCHANGED <<cancelTargets, nClicks, reenabled>>
    /\ UNCHANGED nonProcVars

\* stop_processing_input(assistant_name, is_scheduled_task), lines 355-365
StopProcessingInput ==
    /\ uiQueue # <<>>
    /\ Head(uiQueue).sig = "stop"
    /\ LET r == Head(uiQueue).run
       IN  /\ inputReadOnly' = FALSE
           /\ assistants_processing' = FlagsAfterStop(runs[r].a, runs[r].scheduled)
           /\ runs' = [runs EXCEPT ![r].ui = "done"]
           /\ reenabled' = IF inputReadOnly THEN [reenabled EXCEPT ![r] = @ + 1]
                           ELSE reenabled
    /\ uiQueue' = Tail(uiQueue)
    /\ UNCHANGED <<cancelTargets, nClicks>>
    /\ UNCHANGED nonProcVars

\* Lines 320-323: cancel_processing goes to every assistant that has an
\* entry in assistants_processing.
CancelledAssistants == DOMAIN assistants_processing

\* on_cancel_run_button_clicked, lines 318-338
OnCancelRunButtonClicked ==
    /\ nClicks < MaxClicks
    /\ nClicks' = nClicks + 1
    /\ cancelTargets' = CancelledAssistants
    /\ inputReadOnly' = FALSE
    /\ runs' = [r \in RunIds |->
                   IF r \in ShownRuns THEN [runs[r] EXCEPT !.cancelled = TRUE] ELSE runs[r]]
    /\ reenabled' = [r \in RunIds |->
                        IF inputReadOnly /\ r \in ShownRuns
                        THEN reenabled[r] + 1 ELSE reenabled[r]]
    /\ UNCHANGED <<assistants_processing, uiQueue>>
    /\ UNCHANGED nonProcVars

InitProcessing ==
    /\ assistants_processing = << >>
    /\ inputReadOnly = FALSE
    /\ uiQueue = <<>>
    /\ runs = <<>>
    /\ cancelTargets = {}
    /\ nClicks = 0
    /\ reenabled = <<>>

NextProcessing ==
    \/ \E a \in Assistants, scheduled \in BOOLEAN : BeginRun(a, scheduled)
    \/ \E r \in 1..MaxRuns : EndRun(r)
    \/ StartProcessingInput
    \/ StopProcessingInput
    \/ OnCancelRunButtonClicked

(***************************************************************************)
(* MainWindow: the conversation view                                       *)
(***************************************************************************)
Threads == 1..NumThreads

\* An item of the conversation view: message n of a thread, or a streamed
\* chunk (n = 0).
Item(thread, kind, n) == [thread |-> thread, kind |-> kind, n |-> n]

\* The messages of a thread as the provider holds them (retrieve_conversation).
Conversation(thread) == [i \in 1..transcript[thread] |-> Item(thread, "message", i)]

\* update_conversation_messages, lines 538-540: the view is cleared and the
\* messages of the conversation appended.
UpdateConversationMessages(thread) == Conversation(thread)

\* ConversationThreadClient.is_current_conversation_thread (not among the
\* sources), line 617.
IsCurrentConversationThread(thread) == thread = displayed

\* A lifecycle callback is delivered.
Delivered(kind, thread) ==
    /\ nSignals < MaxSignals
    /\ nSignals' = nSignals + 1
    /\ lastSignal' = [kind |-> kind, thread |-> thread]

\* No lifecycle callback yet.
NoEffects ==
    [fetched |-> FALSE, last_assistant_message |-> "none", diagnostics |-> 0,
     downloads |-> 0, raised |-> FALSE]

\* No streamed run yet.
NoStream == [phase |-> "idle", thread |-> 0, stayed |-> FALSE, ends |-> 0]

\* The user selects a thread in the sidebar: it becomes the current thread
\* and the view shows its messages.
SelectThread(thread) ==
    /\ thread # displayed
    /\ displayed' = thread
    /\ view' = Conversation(thread)
    /\ streamed' = [streamed EXCEPT !.stayed = FALSE]
    /\ UNCHANGED <<transcript, lastSignal, nSignals, effects>>
    /\ UNCHANGED nonViewVars

\* A run adds a message to its thread at the provider.
ProviderMessage(thread) ==
    /\ transcript[thread] < MaxMessages
    /\ transcript' = [transcript EXCEPT ![thread] = @ + 1]
    /\ UNCHANGED <<displayed, view, lastSignal, nSignals, effects, streamed>>
    /\ UNCHANGED nonViewVars

\* The branch on_run_update takes, lines 617-635.
UpdateBranch(thread, run_status, message) ==
    IF ~IsCurrentConversationThread(thread) THEN "return"
    ELSE IF run_status = "streaming" THEN "chunk"
    ELSE IF run_status = "in_progress" /\ message # "none" THEN "message"
    ELSE "conversation"

\* Line 623 evaluates message.text_message: AttributeError for None and for
\* a message that has no such attribute.
UpdateRaises(thread, run_status, message) ==
    UpdateBranch(thread, run_status, message) = "chunk" /\ message # "text"

\* Mutation of ViewAfterUpdate: the fetched conversation replaces the view
\* also when it has no messages.
ViewAfterUpdateAlwaysReplacing(thread, run_status, message, ok) ==
    LET branch == UpdateBranch(thread, run_status, message)
    IN  IF branch = "chunk"
        THEN IF message = "text" THEN Append(view, Item(thread, "chunk", 0)) ELSE view
        ELSE IF branch = "message"
        THEN Append(view, Item(thread, "message", Len(view) + 1))
        ELSE IF branch = "conversation" /\ ok
        THEN UpdateConversationMessages(thread)
        ELSE view

\* The conversation view after on_run_update, lines 622-635.  ok: the
\* retrieve_conversation of line 633 returns.
ViewAfterUpdate(thread, run_status, message, ok) ==
    LET branch == UpdateBranch(thread, run_status, message)
    IN  IF branch = "chunk"
        THEN IF message = "text" THEN Append(view, Item(thread, "chunk", 0)) ELSE view
        ELSE IF branch = "message"
        THEN Append(view, Item(thread, "message", Len(view) + 1))
        ELSE IF branch = "conversation" /\ ok /\ transcript[thread] > 0
        THEN UpdateConversationMessages(thread)
        ELSE view

\* on_run_update, lines 614-635, without the frame.  message: "none", "text"
\* (a message with a text_message) or "other" (a value without one).
RunUpdate(thread, run_status, message, ok) ==
    LET branch == UpdateBranch(thread, run_status, message)
    IN  /\ branch # "conversation" => ok
        /\ Delivered("update", thread)
        /\ view' = ViewAfterUpdate(thread, run_status, message, ok)
        /\ effects' = [NoEffects EXCEPT
                           !.fetched = branch = "conversation",
                           !.raised = ~ok \/ UpdateRaises(thread, run_status, message)]
        /\ UNCHANGED <<displayed, transcript>>

\* on_run_update called by a client that is not the streamed run's handler;
\* its retrieve_conversation returns.
OnRunUpdate(thread, run_status, message) ==
    /\ RunUpdate(thread, run_status, message, TRUE)
    /\ UNCHANGED streamed
    /\ UNCHANGED nonViewVars

\* on_run_failed, lines 637-646
OnRunFailed(thread) ==
    /\ Delivered("failed", thread)
    /\ view' = UpdateConversationMessages(thread)
    /\ effects' = [NoEffects EXCEPT !.fetched = TRUE, !.diagnostics = 1]
    /\ UNCHANGED <<displayed, transcript, streamed>>
    /\ UNCHANGED nonViewVars

\* Mutation of EndDiagnostics: no end of run entry without a message from
\* the assistant.
EndDiagnosticsOnlyWithMessage(last_assistant_message) ==
    IF last_assistant_message = "none" THEN 0 ELSE 1

\* Lines 659-666: end_run_signal is emitted once in either branch.
EndDiagnostics(last_assistant_message) ==
    IF last_assistant_message = "none" THEN 1 ELSE 1

\* on_run_end, lines 652-674, without the frame: the transcript is fetched,
\* the diagnostics entry emitted and the files of the messages downloaded;
\* nothing is sent to the conversation view.  last_assistant_message is
\* what get_last_text_message finds in the fetched conversation and
\* file_messages (0 or 1) whether a message of it holds files; ok: the
\* retrieve_conversation of line 657 returns.
RunEnd(thread, last_assistant_message, file_messages, ok) ==
    /\ last_assistant_message = "text" => ok /\ transcript[thread] > 0
    /\ file_messages > 0 => ok /\ transcript[thread] > 0
    /\ Delivered("end", thread)
    /\ effects' = [fetched |-> TRUE, last_assistant_message |-> last_assistant_message,
                   diagnostics |-> IF ok THEN EndDiagnostics(last_assistant_message) ELSE 0,
                   downloads |-> file_messages, raised |-> ~ok]
    /\ UNCHANGED <<displayed, view, transcript>>

\* on_run_end called by a client that is not the streamed run's handler;
\* its retrieve_conversation returns.
OnRunEnd(thread, last_assistant_message, file_messages) ==
    /\ RunEnd(thread, last_assistant_message, file_messages, TRUE)
    /\ UNCHANGED streamed
    /\ UNCHANGED nonViewVars

\* A streamed run starts on the displayed thread, whose transcript holds the
\* user message that the view shows.
StartStreamedRun(thread) ==
    /\ streamed.phase = "idle"
    /\ IsCurrentConversationThread(thread)
    /\ transcript[thread] = 1
    /\ view = Conversation(thread)
    /\ streamed' = [phase |-> "running", thread |-> thread, stayed |-> TRUE, ends |-> 0]
    /\ UNCHANGED <<displayed, view, transcript, lastSignal, nSignals, effects>>
    /\ UNCHANGED nonViewVars

\* StreamEventHandler.on_text_delta, lines 84-87: on_run_update is called
\* with status "streaming" and delta.value, a str.  An exception of the
\* callback ends the stream.
StreamedTextDelta ==
    /\ streamed.phase = "running"
    /\ RunUpdate(streamed.thread, "streaming", "other", TRUE)
    /\ streamed' = [streamed EXCEPT
                       !.phase = IF UpdateRaises(streamed.thread, "streaming", "other")
                                 THEN "broken" ELSE "running"]
    /\ UNCHANGED nonViewVars

\* StreamEventHandler.on_message_done, lines 70-73, once the provider holds
\* the assistant's message: on_run_update is called with status "completed"
\* and no message.
StreamedMessageDone(ok) ==
    /\ streamed.phase = "running"
    /\ transcript[streamed.thread] > 1
    /\ RunUpdate(streamed.thread, "completed", "none", ok)
    /\ streamed' = [streamed EXCEPT !.phase = IF ok THEN "done" ELSE "broken"]
    /\ UNCHANGED nonViewVars

\* StreamEventHandler.on_end, lines 56-60, at the end of the stream or after
\* the exception that broke it.
StreamedEnd(last_assistant_message, file_messages, ok) ==
    /\ streamed.phase \in {"done", "broken"}
    /\ RunEnd(streamed.thread, last_assistant_message, file_messages, ok)
    /\ streamed' = [streamed EXCEPT !.phase = "ended", !.ends = @ + 1]
    /\ UNCHANGED nonViewVars

InitView ==
    /\ displayed = 0
    /\ view = <<>>
    /\ transcript = [t \in Threads |-> 0]
    /\ lastSignal = [kind |-> "none", thread |-> 0]
    /\ nSignals = 0
    /\ effects = NoEffects
    /\ streamed = NoStream

NextView ==
    \/ \E thread \in Threads : SelectThread(thread)
    \/ \E thread \in Threads : ProviderMessage(thread)
    \/ \E thread \in Threads, run_status \in {"streaming", "in_progress", "completed"},
          message \in {"none", "text", "other"} : OnRunUpdate(thread, run_status, message)
    \/ \E thread \in Threads : OnRunFailed(thread)
    \/ \E thread \in Threads, last_assistant_message \in {"none", "text"},
          file_messages \in 0..1 : OnRunEnd(thread, last_assistant_message, file_messages)

\* The window when the only callbacks delivered are on_run_update.
NextRunUpdate ==
    \/ \E thread \in Threads : SelectThread(thread)
    \/ \E thread \in Threads : ProviderMessage(thread)
    \/ \E thread \in Threads, run_status \in {"streaming", "in_progress", "completed"},
          message \in {"none", "text", "other"} : OnRunUpdate(thread, run_status, message)

\* The window with one streamed run and no other client delivering
\* callbacks.
NextStreamedRun ==
    \/ \E thread \in Threads : SelectThread(thread)
    \/ \E thread \in Threads : ProviderMessage(thread)
    \/ \E thread \in Threads : StartStreamedRun(thread)
    \/ StreamedTextDelta
    \/ \E ok \in BOOLEAN : StreamedMessageDone(ok)
    \/ \E last_assistant_message \in {"none", "text"},
          file_messages \in 0..1, ok \in BOOLEAN :
          StreamedEnd(last_assistant_message, file_messages, ok)

(***************************************************************************)
(* MainWindow: set_active_ai_client_type and closeEvent                    *)
(***************************************************************************)
\* The members of AIClientType that set_active_ai_client_type names.
ClientTypes == {"AZURE_OPEN_AI", "OPEN_AI", "OPEN_AI_REALTIME", "AZURE_OPEN_AI_REALTIME"}

RealtimeTypes == {"OPEN_AI_REALTIME", "AZURE_OPEN_AI_REALTIME"}

\* No handler has run yet.
NoHandler ==
    [op |-> "none", from |-> "none", to |-> "none", saved |-> {},
     changed |-> FALSE, raised |-> FALSE]

\* Mutation of ThreadsSavedOnSwitch: the threads of the new type are saved.
ThreadsSavedOnSwitchNew(active, new_client_type) ==
    IF conversation_thread_clients[new_client_type] THEN {new_client_type} ELSE {}

\* Lines 258-259: the thread client of the active type, when there is one,
\* saves its conversation threads.
ThreadsSavedOnSwitch(active, new_client_type) ==
    IF conversation_thread_clients[active] THEN {active} ELSE {}

\* Lines 748-751: every client type whose thread client is not None.
ThreadsSavedOnClose ==
    {t \in ClientTypes : conversation_thread_clients[t]}

\* The types in `saved` have their threads written.
AfterSave(saved) == [t \in ClientTypes |-> unsaved[t] /\ t \notin saved]

\* set_active_ai_client_type(new_client_type), lines 235-266 (and the rest of
\* the handler, which changes nothing modelled here).  ok is FALSE when
\* save_conversation_threads or save_configs raises.
SetActiveAiClientType(new_client_type, ok) ==
    /\ ~window_closed
    /\ IF ~initialized
       THEN \* line 237: deferred_init has not run
            /\ ok
            /\ UNCHANGED <<active_ai_client_type, unsaved, lastHandler>>
       ELSE IF active_ai_client_type \in RealtimeTypes /\ new_client_type = active_ai_client_type
       THEN \* lines 241-245
            /\ ok
            /\ lastHandler' = [NoHandler EXCEPT !.op = "switch",
                                   !.from = active_ai_client_type, !.to = new_client_type]
            /\ UNCHANGED <<active_ai_client_type, unsaved>>
       ELSE LET saved == ThreadsSavedOnSwitch(active_ai_client_type, new_client_type)
            IN  IF ok
                THEN /\ unsaved' = AfterSave(saved)
                     /\ active_ai_client_type' = new_client_type
                     /\ lastHandler' = [op |-> "switch", from |-> active_ai_client_type,
                                        to |-> new_client_type, saved |-> saved,
                                        changed |-> TRUE, raised |-> FALSE]
                ELSE \* the exception leaves the handler before line 266
                     /\ \E done \in SUBSET saved :
                           /\ unsaved' = AfterSave(done)
                           /\ lastHandler' = [op |-> "switch", from |-> active_ai_client_type,
                                              to |-> new_client_type, saved |-> done,
                                              changed |-> FALSE, raised |-> TRUE]
                     /\ UNCHANGED active_ai_client_type
    /\ UNCHANGED <<initialized, conversation_thread_clients, window_closed>>
    /\ UNCHANGED nonTypeVars

\* deferred_init, lines 73-76: initialize_variables (lines 92-104) makes
\* AZURE_OPEN_AI the active type and builds the thread clients, None for a
\* type whose client cannot be built; then
\* set_active_ai_client_type(AZURE_OPEN_AI) runs, with nothing to save yet.
DeferredInit(clients) ==
    /\ ~initialized /\ ~window_closed
    /\ initialized' = TRUE
    /\ conversation_thread_clients' = clients
    /\ active_ai_client_type' = "AZURE_OPEN_AI"
    /\ lastHandler' = [op |-> "switch", from |-> "AZURE_OPEN_AI", to |-> "AZURE_OPEN_AI",
                       saved |-> {t \in {"AZURE_OPEN_AI"} : clients[t]},
                       changed |-> TRUE, raised |-> FALSE]
    /\ UNCHANGED <<unsaved, window_closed>>
    /\ UNCHANGED nonTypeVars

\* A conversation thread of the active type is created, renamed or given a
\* message (setup_conversation_thread, lines 421-431, and the callers of the
\* thread client): its thread client now holds what its file does not.
ChangeThreads ==
    /\ initialized /\ ~window_closed
    /\ conversation_thread_clients[active_ai_client_type]
    /\ ~unsaved[active_ai_client_type]
    /\ unsaved' = [unsaved EXCEPT ![active_ai_client_type] = TRUE]
    /\ UNCHANGED <<initialized, active_ai_client_type, conversation_thread_clients,
                   lastHandler, window_closed>>
    /\ UNCHANGED nonTypeVars

\* closeEvent, lines 745-764.  failing is "none" when nothing raises,
\* "configs" when save_configs raises (line 747) and a client type when its
\* save_conversation_threads raises; `done` are the types saved before that.
\* Before deferred_init the window has no conversation_thread_clients and
\* line 750 raises.  The except block reports, and the close is accepted.
CloseEvent(failing, done) ==
    /\ ~window_closed
    /\ window_closed' = TRUE
    /\ LET all == IF initialized THEN ThreadsSavedOnClose ELSE {}
           saved == IF failing = "none" THEN all ELSE done
       IN  /\ failing \in all \cup {"configs", "none"}
           /\ ~initialized => failing # "none"
           /\ IF failing = "none" THEN done = {}
              ELSE IF failing = "configs" THEN done = {}
              ELSE done \subseteq all \ {failing}
           /\ unsaved' = AfterSave(saved)
           /\ lastHandler' = [op |-> "close", from |-> active_ai_client_type,
                              to |-> active_ai_client_type, saved |-> saved,
                              changed |-> FALSE, raised |-> failing # "none"]
    /\ UNCHANGED <<initialized, active_ai_client_type, conversation_thread_clients>>
    /\ UNCHANGED nonTypeVars

InitClientType ==
    /\ initialized = FALSE
    /\ active_ai_client_type = "none"
    /\ conversation_thread_clients = [t \in ClientTypes |-> FALSE]
    /\ unsaved = [t \in ClientTypes |-> FALSE]
    /\ lastHandler = NoHandler
    /\ window_closed = FALSE

NextClientType ==
    \/ \E clients \in [ClientTypes -> BOOLEAN] : DeferredInit(clients)
    \/ \E new_client_type \in ClientTypes, ok \in BOOLEAN :
          SetActiveAiClientType(new_client_type, ok)
    \/ ChangeThreads
    \/ \E failing \in ClientTypes \cup {"configs", "none"}, done \in SUBSET ClientTypes :
          CloseEvent(failing, done)

(***************************************************************************)
(* MainWindow: the assistant list during realtime runs                     *)
(***************************************************************************)
\* The terminal lifecycle callbacks of a run.
TerminalCallbacks == {"end", "failed", "cancelled"}

NoTerminal == [kind |-> "none", realtime |-> FALSE]

\* handle_realtime_run_start, lines 572-574: the list after the call, for
\* an assistant that is_realtime_assistant (lines 557-561) finds realtime or
\* not
HandleRealtimeRunStart(realtime) ==
    IF realtime THEN TRUE ELSE assistantListDisabled

\* handle_realtime_run_end, lines 581-583: the list after the call
HandleRealtimeRunEnd(realtime) ==
    IF realtime THEN FALSE ELSE assistantListDisabled

\* The list after a terminal callback: on_run_failed (line 642) and
\* on_run_end (line 655) call handle_realtime_run_end, on_run_cancelled
\* (lines 648-650) does not.
ListAfterTerminal(kind, realtime) ==
    IF kind \in {"end", "failed"} THEN HandleRealtimeRunEnd(realtime)
    ELSE assistantListDisabled

RunsActive == {r \in 1..Len(rtRuns) : rtRuns[r].status = "active"}

\* on_run_start, lines 605-607, for a new run of assistant a, whose type
\* is the one its earlier runs had
RunStart(a, realtime) ==
    /\ Len(rtRuns) < MaxRuns
    /\ \A r \in 1..Len(rtRuns) : rtRuns[r].a = a => rtRuns[r].realtime = realtime
    /\ rtRuns' = Append(rtRuns, [a |-> a, realtime |-> realtime, status |-> "active"])
    /\ assistantListDisabled' = HandleRealtimeRunStart(realtime)
    /\ lastTerminal' = NoTerminal
    /\ UNCHANGED nonListVars

\* on_run_end, on_run_failed or on_run_cancelled for run r: the one terminal
\* callback of the run.
RunTerminalCallback(r, kind) ==
    /\ r \in RunsActive
    /\ rtRuns' = [rtRuns EXCEPT ![r].status = kind]
    /\ assistantListDisabled' = ListAfterTerminal(kind, rtRuns[r].realtime)
    /\ lastTerminal' = [kind |-> kind, realtime |-> rtRuns[r].realtime]
    /\ UNCHANGED nonListVars

\* on_cancel_run_button_clicked, lines 335-336: the handler enables the list.
CancelButtonEnablesList ==
    /\ assistantListDisabled
    /\ assistantListDisabled' = FALSE
    /\ UNCHANGED <<rtRuns, lastTerminal>>
    /\ UNCHANGED nonListVars

InitAssistantList ==
    /\ rtRuns = <<>>
    /\ assistantListDisabled = FALSE
    /\ lastTerminal = NoTerminal

NextAssistantList ==
    \/ \E a \in Assistants, realtime \in BOOLEAN : RunStart(a, realtime)
    \/ \E r \in 1..MaxRuns, kind \in TerminalCallbacks : RunTerminalCallback(r, kind)
    \/ CancelButtonEnablesList

(***************************************************************************)
(* MainWindow: the thread store the lifecycle callbacks use                *)
(***************************************************************************)
NoResolve == [kind |-> "none", run |-> 0, store |-> "none"]

\* Lines 617, 633, 645 and 657: the callbacks take
\* conversation_thread_clients[self.active_ai_client_type], the thread client
\* of the type that is active when they run.
CallbackStore == active_ai_client_type

\* process_input, lines 439-443, and process_assistant_input: a run is
\* submitted on a thread of the thread client of the active type.
SubmitRun ==
    /\ initialized /\ ~window_closed
    /\ conversation_thread_clients[active_ai_client_type]
    /\ Len(submittedRuns) < MaxRuns
    /\ submittedRuns' = Append(submittedRuns,
                               [type |-> active_ai_client_type, over |-> FALSE])
    /\ UNCHANGED lastResolve
    /\ UNCHANGED nonStoreVars

\* on_run_update, on_run_failed or on_run_end of run r, lines 614-674: the
\* thread of the run is looked up through the thread client of CallbackStore.
RunCallback(r, kind) ==
    /\ r \in 1..Len(submittedRuns)
    /\ ~submittedRuns[r].over
    /\ lastResolve' = [kind |-> kind, run |-> r, store |-> CallbackStore]
    /\ submittedRuns' = [submittedRuns EXCEPT ![r].over = kind \in {"failed", "end"}]
    /\ UNCHANGED nonStoreVars

InitRunStore ==
    /\ submittedRuns = <<>>
    /\ lastResolve = NoResolve

\* The window with runs in flight while the active client type is switched.
NextRunStore ==
    \/ \E clients \in [ClientTypes -> BOOLEAN] : DeferredInit(clients)
    \/ \E new_client_type \in ClientTypes, ok \in BOOLEAN :
          SetActiveAiClientType(new_client_type, ok)
    \/ SubmitRun
    \/ \E r \in 1..MaxRuns, kind \in {"update", "failed", "end"} : RunCallback(r, kind)

(***************************************************************************)
(* AssistantConfigDialog: the instructions and the Instructions Editor     *)
(***************************************************************************)
AssistantTypes == {"assistant", "chat_assistant", "realtime_assistant"}

\* The texts of the two edits; 0 is the empty text.
Texts == 0..NumTexts

NoDialog ==
    [open |-> FALSE, assistant_type |-> "none", currentIndex |-> 0,
     instructionsEdit |-> 0, newInstructionsEdit |-> 0]

NoDialogOp ==
    [op |-> "none", assistant_type |-> "none", index |-> 0,
     instructions |-> 0, editor |-> 0, editor_after |-> 0, saved |-> -1]

\* init_ui, lines 88-107: General, Tools, Completion, then Realtime for a
\* realtime assistant, then Instructions Editor.
InstructionsEditorIndex(assistant_type) ==
    IF assistant_type = "realtime_assistant" THEN 4 ELSE 3

TabCount(assistant_type) == InstructionsEditorIndex(assistant_type) + 1

\* on_tab_changed(index), lines 72-78: the dialog after the tab change.
AfterTabChanged(d, index) ==
    IF index = 3
    THEN [d EXCEPT !.currentIndex = index, !.newInstructionsEdit = d.instructionsEdit]
    ELSE IF index = 0 /\ d.newInstructionsEdit # 0
    THEN [d EXCEPT !.currentIndex = index, !.instructionsEdit = d.newInstructionsEdit]
    ELSE [d EXCEPT !.currentIndex = index]

\* save_configuration, lines 1138-1139: the instructions edit at the save.
InstructionsAtSave(d) ==
    IF d.currentIndex = 3 THEN d.newInstructionsEdit ELSE d.instructionsEdit

\* __init__ and init_ui, lines 38-107, with pre_load_assistant_config, line
\* 905: the General tab is current and the editor is empty.
OpenDialog(assistant_type, instructions) ==
    /\ ~dialog.open
    /\ dialog' = [open |-> TRUE, assistant_type |-> assistant_type, currentIndex |-> 0,
                  instructionsEdit |-> instructions, newInstructionsEdit |-> 0]
    /\ lastDialogOp' = NoDialogOp
    /\ UNCHANGED nonDialogVars

\* The user selects another tab: on_tab_changed(index), lines 72-78.
OnTabChanged(index) ==
    /\ dialog.open
    /\ index < TabCount(dialog.assistant_type)
    /\ index # dialog.currentIndex
    /\ dialog' = AfterTabChanged(dialog, index)
    /\ lastDialogOp' = [op |-> "tab", assistant_type |-> dialog.assistant_type,
                        index |-> index,
                        instructions |-> dialog.instructionsEdit,
                        editor |-> dialog.newInstructionsEdit,
                        editor_after |-> AfterTabChanged(dialog, index).newInstructionsEdit,
                        saved |-> -1]
    /\ UNCHANGED nonDialogVars

\* The user types in the edit of the current tab: instructionsEdit on the
\* General tab (lines 184-197), newInstructionsEdit on the Instructions
\* Editor tab (lines 855-857).
EditText(text) ==
    /\ dialog.open
    /\ \/ /\ dialog.currentIndex = 0
          /\ text # dialog.instructionsEdit
          /\ dialog' = [dialog EXCEPT !.instructionsEdit = text]
       \/ /\ dialog.currentIndex = InstructionsEditorIndex(dialog.assistant_type)
          /\ text # dialog.newInstructionsEdit
          /\ dialog' = [dialog EXCEPT !.newInstructionsEdit = text]
    /\ lastDialogOp' = NoDialogOp
    /\ UNCHANGED nonDialogVars

\* save_configuration, lines 1137-1229: with empty instructions nothing is
\* submitted (lines 1225-1227).
SaveConfiguration ==
    /\ dialog.open
    /\ dialog' = [dialog EXCEPT !.instructionsEdit = InstructionsAtSave(dialog)]
    /\ lastDialogOp' = [op |-> "save", assistant_type |-> dialog.assistant_type,
                        index |-> dialog.currentIndex,
                        instructions |-> dialog.instructionsEdit,
                        editor |-> dialog.newInstructionsEdit,
                        editor_after |-> dialog.newInstructionsEdit,
                        saved |-> IF InstructionsAtSave(dialog) = 0
                                  THEN -1 ELSE InstructionsAtSave(dialog)]
    /\ UNCHANGED nonDialogVars

\* closeEvent, lines 80-81
CloseDialog ==
    /\ dialog.open
    /\ dialog' = NoDialog
    /\ UNCHANGED lastDialogOp
    /\ UNCHANGED nonDialogVars

InitDialog ==
    /\ dialog = NoDialog
    /\ lastDialogOp = NoDialogOp

NextDialog ==
    \/ \E assistant_type \in AssistantTypes, instructions \in Texts :
          OpenDialog(assistant_type, instructions)
    \/ \E index \in 0..4 : OnTabChanged(index)
    \/ \E text \in Texts : EditText(text)
    \/ SaveConfiguration
    \/ CloseDialog

(***************************************************************************)
(* AzureKeywordRecognizer: start_recognition, stop_recognition, push_audio *)
(***************************************************************************)
SampleRates == {16000, 24000}

Chunks == 1..NumChunks

NoRecognizer ==
    [constructed |-> FALSE, sample_rate |-> 16000, is_started |-> FALSE,
     recognized |-> 0, canceled |-> 0, audio_stream |-> <<>>]

NoKwHistory == [listening |-> FALSE, pushed |-> FALSE, wrote |-> FALSE]

\* recognized.connect / canceled.connect behind is_connected(), lines
\* 99-102: a handler is added when none is connected.
ConnectedAfterStart(n) == IF n = 0 THEN 1 ELSE n

\* Mutation of PushWrites: push_audio does not look at is_started.
PushWritesAlways(r) == TRUE

\* push_audio, lines 120-122: the data are ignored unless is_started.
PushWrites(r) == r.is_started

\* push_audio, lines 124-131: what is written, the data resampled to 16000
\* when the sample rate is 24000.
Written(r, chunk) == [chunk |-> chunk, resampled |-> r.sample_rate = 24000]

\* __init__, lines 57-89: both handlers are connected once, is_started is
\* False.
Construct(sample_rate) ==
    /\ ~recognizer.constructed
    /\ recognizer' = [constructed |-> TRUE, sample_rate |-> sample_rate,
                      is_started |-> FALSE, recognized |-> 1, canceled |-> 1,
                      audio_stream |-> <<>>]
    /\ UNCHANGED kwHistory
    /\ UNCHANGED nonKeywordVars

\* start_recognition, lines 91-105.  ok: recognize_once_async returns.
StartRecognition(ok) ==
    /\ recognizer.constructed
    /\ recognizer' = [recognizer EXCEPT
                         !.recognized = ConnectedAfterStart(@),
                         !.canceled = ConnectedAfterStart(@),
                         !.is_started = IF ok THEN TRUE ELSE @]
    /\ kwHistory' = [kwHistory EXCEPT !.listening = IF ok THEN TRUE ELSE @,
                                      !.pushed = FALSE, !.wrote = FALSE]
    /\ UNCHANGED nonKeywordVars

\* stop_recognition, lines 107-115.  ok: stop_recognition_async and the
\* wait for it return.
StopRecognition(ok) ==
    /\ recognizer.constructed
    /\ recognizer' = IF ok
                     THEN [recognizer EXCEPT !.recognized = 0, !.canceled = 0,
                                             !.is_started = FALSE]
                     ELSE recognizer
    /\ kwHistory' = [kwHistory EXCEPT !.listening = IF ok THEN FALSE ELSE @,
                                      !.pushed = FALSE, !.wrote = FALSE]
    /\ UNCHANGED nonKeywordVars

\* push_audio(pcm_data), lines 117-131
PushAudio(chunk) ==
    /\ recognizer.constructed
    /\ Len(recognizer.audio_stream) < MaxPushes
    /\ recognizer' = IF PushWrites(recognizer)
                     THEN [recognizer EXCEPT
                              !.audio_stream = Append(@, Written(recognizer, chunk))]
                     ELSE recognizer
    /\ kwHistory' = [kwHistory EXCEPT !.pushed = TRUE,
                                      !.wrote = PushWrites(recognizer)]
    /\ UNCHANGED nonKeywordVars

InitKeyword ==
    /\ recognizer = NoRecognizer
    /\ kwHistory = NoKwHistory

NextKeyword ==
    \/ \E sample_rate \in SampleRates : Construct(sample_rate)
    \/ \E ok \in BOOLEAN : StartRecognition(ok)
    \/ \E ok \in BOOLEAN : StopRecognition(ok)
    \/ \E chunk \in Chunks : PushAudio(chunk)

(***************************************************************************)
(* MainWindow: update_attachments_from_ui_to_thread                        *)
(***************************************************************************)
Files == 1..NumFiles

AttachmentTypes == {"image_file", "document_file"}

Attachment(file_id, attachment_type) ==
    [file_id |-> file_id, attachment_type |-> attachment_type]

FileIds(attachments) == {att.file_id : att \in attachments}

\* No call of update_attachments_from_ui_to_thread yet.
NoReconcile ==
    [called |-> FALSE, none |-> FALSE, submitted |-> {}, existing |-> {}, detached |-> {},
     deleted |-> {}, after |-> {}, completed |-> FALSE, in_a_row |-> FALSE,
     repeat |-> FALSE, first_detached |-> FALSE]

\* Lines 479-480: the existing attachments whose file id is not among the
\* submitted ones.
AttachmentsToRemove(existing, submitted) ==
    {att \in existing : att.file_id \notin submitted}

\* Mutation of AfterDetach: the thread configuration keeps the attachment.
AfterDetachKeepingAll(existing, removed) == existing

\* ConversationThreadConfig.remove_attachment_from_thread (not among the
\* sources), line 483: the thread no longer holds an attachment with the
\* file id.
AfterDetach(existing, removed) ==
    {att \in existing : att.file_id \notin FileIds(removed)}

\* Mutation of DeletesRemotely: images are deleted as well.
DeletesRemotelyAlways(att) == TRUE

\* Line 484: the file of a removed attachment is deleted at the provider
\* unless the attachment is an image.
DeletesRemotely(att) == att.attachment_type # "image_file"

\* The call now made with these attachments_dicts follows a call with the
\* same ones that ran to its end, with nothing attached in between but files
\* of that set.
Repeats(none, submitted) ==
    /\ lastReconcile.called /\ lastReconcile.completed /\ lastReconcile.in_a_row
    /\ lastReconcile.none = none
    /\ lastReconcile.submitted = submitted

\* A file is attached to the thread (by a message that carries it).
AttachFile(file_id, attachment_type) ==
    /\ file_id \notin FileIds(attached)
    /\ attached' = attached \cup {Attachment(file_id, attachment_type)}
    /\ lastReconcile' = [lastReconcile EXCEPT
                            !.in_a_row = @ /\ file_id \in lastReconcile.submitted]
    /\ UNCHANGED nonAttachVars

\* update_attachments_from_ui_to_thread(thread_client, thread_id,
\* attachments_dicts), lines 476-487, with the file ids of attachments_dicts
\* submitted.  The loop takes the attachments to remove in the order of the
\* thread's list; `removed` are those it has handled when it ends, and when
\* that is not all of them, files.delete has raised for `failing`.
UpdateAttachmentsFromUiToThread(submitted, removed, failing) ==
    LET to_remove == AttachmentsToRemove(attached, submitted)
        completed == removed = to_remove
        detached  == IF completed THEN removed ELSE removed \cup {failing}
        deleted   == {att.file_id : att \in {d \in removed : DeletesRemotely(d)}}
    IN  /\ removed \subseteq to_remove
        /\ IF completed THEN failing = Attachment(0, "none")
           ELSE failing \in to_remove \ removed /\ DeletesRemotely(failing)
        /\ attached' = AfterDetach(attached, detached)
        /\ lastReconcile' =
              [called |-> TRUE, none |-> FALSE, submitted |-> submitted,
               existing |-> attached, detached |-> detached, deleted |-> deleted,
               after |-> AfterDetach(attached, detached), completed |-> completed,
               in_a_row |-> TRUE, repeat |-> Repeats(FALSE, submitted),
               first_detached |-> Repeats(FALSE, submitted) /\ lastReconcile.detached # {}]
        /\ UNCHANGED nonAttachVars

\* update_attachments_from_ui_to_thread with attachments_dicts None: line 479
\* raises TypeError before anything is removed.
UpdateAttachmentsWithNone ==
    /\ lastReconcile' = [NoReconcile EXCEPT !.called = TRUE, !.none = TRUE,
                                             !.existing = attached, !.after = attached,
                                             !.in_a_row = TRUE,
                                             !.repeat = Repeats(TRUE, {})]
    /\ UNCHANGED attached
    /\ UNCHANGED nonAttachVars

InitAttach ==
    /\ attached = {}
    /\ lastReconcile = NoReconcile

NextAttach ==
    \/ \E file_id \in Files, attachment_type \in AttachmentTypes :
          AttachFile(file_id, attachment_type)
    \/ \E submitted \in SUBSET Files,
          removed \in SUBSET (Files \X AttachmentTypes),
          failing \in (Files \X AttachmentTypes) \cup {<<0, "none">>} :
          UpdateAttachmentsFromUiToThread(
              submitted,
              {Attachment(x[1], x[2]) : x \in removed},
              Attachment(failing[1], failing[2]))
    \/ UpdateAttachmentsWithNone

(***************************************************************************)
(* Properties of StreamEventHandler, checked under SpecStream              *)
(***************************************************************************)

StartCount == CountOf(lifecycle, "start")

EndCount == CountOf(lifecycle, "end")

\* The run has reached a terminal state: a terminal status at the provider,
\* or a stream broken by an exception or a timeout.
RunIsTerminal == runStatus \in TerminalStatuses \/ streamError # "none"

\* The run's streams are all over.
RunOver == runStatus # "none" /\ hs = <<>>

\* C1: on_run_start is emitted at most once per run, and never after the
\* run's on_run_end.
C1_StartOnceBeforeEnd ==
    /\ StartCount <= 1
    /\ \A i, j \in 1..Len(lifecycle) :
          (lifecycle[i] = "start" /\ lifecycle[j] = "end") => i < j

\* C1 witness: a run with text and a tool-output resubmission has emitted
\* its start and then its end.
C1_Witness == lifecycle = <<"start", "end">> /\ nResumes >= 1 /\ nTexts >= 1

C3_FirstChunkOnlyFirstDelta ==
    \A i \in 1..Len(chunkFlags) : chunkFlags[i] = (i = 1)

C5_NoSignalFromResubmission ==
    [][/\ nResumes' > nResumes =>
            /\ lifecycle' = lifecycle
            /\ chunkFlags' = chunkFlags
            /\ nCompleted' = nCompleted
       /\ (hs # <<>> /\ Top.is_submit_tool_call) =>
            CountOf(lifecycle', "start") = CountOf(lifecycle, "start")]_vars

\* C5 witness: a resubmission handler has received content while the run's
\* only start is the outer handler's.
C5_Witness ==
    /\ Len(hs) >= 2
    /\ Top.is_submit_tool_call
    /\ (Top.current_tool_call \/ Top.text_open)
    /\ StartCount = 1

\* The outputs of the last resume match the last batch: one output per call
\* id, in order, an error output for each call that failed.
OutputsMatchBatch ==
    /\ Len(lastOutputs) = Len(lastBatch)
    /\ \A i \in 1..Len(lastBatch) :
          /\ lastOutputs[i].tool_call_id = lastBatch[i].id
          /\ (lastOutputs[i].output = "result") = (lastBatch[i].kind = "ok")
    /\ Cardinality({lastOutputs[i].tool_call_id : i \in 1..Len(lastOutputs)})
          = Len(lastBatch)

\* C6: the resume of a batch of N tool calls submits exactly N outputs, one
\* per call id, error outputs for the calls that failed, and an accepted
\* resume leaves the run in progress whatever calls failed.
C6_OneOutputPerCall ==
    /\ [](nResumes >= 1 => OutputsMatchBatch)
    /\ [][(nResumes' > nResumes /\ Len(hs') > Len(hs)) =>
            (runStatus' = "in_progress" /\ streamError' = streamError)]_vars

\* C6 witness: a batch of two calls, the first of which raised, was resumed
\* with its outputs and the run goes on in the resubmission stream.
C6_Witness ==
    /\ nResumes = 1
    /\ Len(lastBatch) = 2
    /\ lastBatch[1].kind = "throws"
    /\ lastBatch[2].kind = "ok"
    /\ Len(lastOutputs) = 2
    /\ Len(hs) = 2
    /\ Top.open
    /\ runStatus = "in_progress"

\* C7: _handle_required_action has been started once per batch delivered
\* with requires_action, with the whole batch, and never without one.
C7_OneResumePerBatch ==
    /\ nResumes = nBatches
    /\ nResumes >= 1 => lastResumeCalls = lastBatch

\* C7 witness: a batch of two calls (two tool-call-done events) was resumed once.
C7_Witness == nBatches = 1 /\ Len(lastBatch) = 2 /\ nResumes = 1 /\ nToolCalls = 2

\* C19: when a stream of the run was broken by an exception or a timeout,
\* the handler has reported the run to the callbacks as failed by the time
\* its streams are over, a timeout as a class of its own ("timed_out").
C19_BrokenStreamReportedAsFailure ==
    (RunOver /\ streamError # "none") =>
        /\ streamError = "exception" => CountOf(lifecycle, "failed") >= 1
        /\ streamError = "timeout" => CountOf(lifecycle, "timed_out") >= 1

(***************************************************************************)
(* Properties of the scheduled-task callbacks, checked under SpecSched     *)
(***************************************************************************)

\* C8: at most one conversation thread is created for a schedule id between
\* cleanups, and every step of a callback that reads or writes the binding
\* table is taken by the worker holding thread_lock.
C8_OneThreadPerScheduleId ==
    /\ \A sid \in SchedIds : createdFor[sid] <= 1
    /\ \A w \in Workers : worker[w].pc \in LockedPcs => thread_lock = w

\* C8 witness: two on_task_started callbacks for one schedule id run
\* concurrently, one about to create the thread, one waiting for the lock.
C8_Witness ==
    \E w, v \in Workers :
        /\ w # v
        /\ worker[w].pc = "started_create"
        /\ worker[v].pc = "started_acquire"
        /\ worker[v].sid = worker[w].sid

C10_ExecutionHasThread ==
    /\ \A sid \in DOMAIN scheduled_task_threads : scheduled_task_threads[sid] # NoName
    /\ \A w \in Workers :
          worker[w].pc = "exec_process" => ThreadIdByName(worker[w].thread_name) # 0

\* Program points at which a callback waits to enter `with self.thread_lock`.
AcquirePcs == {"started_acquire", "exec_acquire", "cleanup_acquire"}

\* C11: no lock is held for the duration of a submission: while one worker
\* is inside process_input for one schedule id, a callback of another
\* schedule id that waits for the lock finds it free.
C11_RunsDoNotBlock ==
    \A w, v \in Workers :
        (/\ worker[w].pc = "exec_process"
         /\ worker[v].pc \in AcquirePcs
         /\ worker[v].sid # worker[w].sid) => thread_lock = Unlocked

\* C21: the lock is held only by a worker inside one of the three `with`
\* blocks, so it is free whenever no callback is inside one (each has
\* returned or raised); and a worker that waits to enter a `with` does not
\* hold the lock already.
C21_LockNeverLeftHeld ==
    /\ thread_lock # Unlocked =>
          thread_lock \in Workers /\ worker[thread_lock].pc \in LockedPcs
    /\ \A w \in Workers : worker[w].pc \in LockedPcs => thread_lock = w
    /\ \A w \in Workers : worker[w].pc \in AcquirePcs => thread_lock # w
    /\ (\A w \in Workers : worker[w].pc \notin LockedPcs) => thread_lock = Unlocked

\* C21 witness: handle_execution has renamed the thread of a schedule id
\* and ended by the exception of process_input, every callback is over or
\* waits for the lock, and the lock is free.
C21_Witness ==
    /\ thread_lock = Unlocked
    /\ \E sid \in DOMAIN scheduled_task_threads : scheduled_task_threads[sid][2] >= 2
    /\ \E w \in Workers : worker[w].pc \in AcquirePcs

\* C31: on_task_execute handles every request of its task: the callback
\* returns from process_input only when the request it has handled is the
\* last one of the list.
C31_AllRequestsProcessed ==
    [][\A w \in Workers :
          (worker[w].pc = "exec_process" /\ worker'[w].pc = "idle") =>
              worker[w].requests = 1]_vars

EventsOf(kinds) == {i \in 1..Len(events) : events[i].ev \in kinds}

\* The steps of process_input that precede its runs.
Preparation == <<"reconciled", "appended", "fetched", "published">>

\* C12: a start-processing signal or a run of a submission comes after the
\* attachments were reconciled, the message appended and the transcript
\* fetched and published, in this order; when one of these steps has failed
\* the submission has no run.
C12_RunsAfterPreparation ==
    /\ \A i \in EventsOf({"start", "run"}) :
          /\ i > Len(Preparation)
          /\ \A j \in 1..Len(Preparation) : events[j].ev = Preparation[j]
    /\ \A i \in EventsOf({"reconciled", "appended", "fetched", "published"}) :
          events[i].ev = Preparation[i]
    /\ (\E i \in EventsOf({"error"}) : i <= Len(Preparation)) => EventsOf({"run"}) = {}

\* C12 witness: an assistant's run has started.
C12_Witness == EventsOf({"run"}) # {} /\ activeRuns # {}

\* C13: at most one run of the submission is active, and the start signal of
\* a later assistant directly follows the stop signal of the assistant before
\* it.
C13_RunsSequential ==
    /\ Cardinality(activeRuns) <= 1
    /\ \A i \in EventsOf({"start"}) :
          (\E j \in EventsOf({"start"}) : j < i) =>
              /\ events[i - 1].ev = "stop"
              /\ \E j \in EventsOf({"start"}) :
                    j < i /\ events[j].a = events[i - 1].a
                          /\ \A l \in EventsOf({"start"}) : ~(j < l /\ l < i)

\* C13 witness: the run of the second assistant of a submission is active
\* after the run of the first.
C13_Witness ==
    /\ Cardinality(EventsOf({"run"})) = 2
    /\ sub.pc = "running"

\* C14: without a thread client for the active client type, a user input
\* ends with an error shown, no job submitted to the executor and no
\* provider call, and no interactive submission is in progress.
C14_NoClientNoJob ==
    ~thread_client_ready =>
        /\ uiReport.input => (uiReport.error /\ ~uiReport.job /\ uiReport.calls = {})
        /\ sub.pc # "idle" => sub.scheduled

\* C14 witness: a user input with an assistant selected was handled without
\* a thread client.
C14_Witness ==
    /\ ~thread_client_ready
    /\ uiReport.input
    /\ uiReport.assistants # <<>>
    /\ uiReport.error

\* C15: a run is directly preceded by the start signal for its assistant and
\* scheduled flag; while it is active no stop signal for the assistant has
\* been emitted, and once it is over exactly one has, after the run and with
\* the same scheduled flag.
C15_StartAndOneStopPerRun ==
    \A i \in EventsOf({"run"}) :
        LET a     == events[i].a
            stops == {j \in EventsOf({"stop"}) : events[j].a = a}
        IN  /\ i > 1
            /\ events[i - 1] = Ev("start", a, events[i].scheduled)
            /\ IF a \in activeRuns
               THEN stops = {}
               ELSE /\ Cardinality(stops) = 1
                    /\ \A j \in stops : j > i /\ events[j].scheduled = events[i].scheduled

\* C15 witness: process_messages raised and process_input is over.
C15_Witness ==
    /\ sub.pc = "idle"
    /\ \E i \in EventsOf({"run"}) :
          i < Len(events) /\ events[i + 1].ev = "error"

\* C38: when process_messages of an assistant raises, one error signal
\* follows its run, then the stop-processing signal of that assistant, and
\* nothing more: process_input is over, with no start-processing signal and
\* no run for the assistants after it.
C38_ExceptionEndsSubmission ==
    \A i \in EventsOf({"error"}) :
        (i > 1 /\ events[i - 1].ev = "run") =>
            /\ sub.pc = "idle"
            /\ EventsOf({"error"}) = {i}
            /\ Len(events) = i + 1
            /\ events[i + 1] = Ev("stop", events[i - 1].a, events[i - 1].scheduled)
            /\ Cardinality({j \in EventsOf({"stop"}) : events[j].a = events[i - 1].a}) = 1

\* C38 witness: in a submission to two assistants process_messages of the
\* first one raised, and the second one was never started.
C38_Witness ==
    /\ sub.pc = "idle"
    /\ Len(uiReport.assistants) = 2
    /\ uiReport.job
    /\ \E i \in EventsOf({"error"}) :
          /\ i > 1
          /\ events[i - 1] = Ev("run", uiReport.assistants[1], FALSE)
          /\ EventsOf({"start"}) = {i - 2}

\* C22: when process_input of a scheduled request is over, with a thread
\* client, a client for the assistant and no failed provider call, it has
\* appended one user message and started one run.
C22_ScheduledRequestRuns ==
    (/\ outcome # "none"
     /\ thread_client_ready
     /\ ~fault
     /\ \E i \in 1..Len(events) : events[i].scheduled) =>
        /\ Cardinality(EventsOf({"appended"})) = 1
        /\ Cardinality(EventsOf({"run"})) = 1

\* C29: the handler of the user input event, which runs on the UI thread,
\* makes no provider call itself.
C29_NoProviderCallOnUiThread == uiReport.calls = {}

\* C20: process_input does not end by an exception, and reports a failure
\* once through the error signal.
C20_NeverPropagates ==
    /\ outcome # "raised"
    /\ Cardinality(EventsOf({"error"})) <= 1

(***************************************************************************)
(* Properties of the processing state, checked under SpecProcessing        *)
(***************************************************************************)
\* process_messages is in progress for the assistant.
RunOfAssistantInFlight(a) == \E r \in RunIds : runs[r].a = a /\ runs[r].in_flight

\* C17: for a run that was shown as processing when the cancel button was
\* clicked, the handlers that act for it (the cancel button's handler and
\* the slot of its stop signal) make the input field editable again at most
\* once, and once when both have run.
C17_ReenabledOncePerRun ==
    \A r \in RunIds :
        runs[r].cancelled =>
            /\ reenabled[r] <= 1
            /\ runs[r].ui = "done" => reenabled[r] = 1

\* The flag of an assistant is set (an assistant without an entry has none).
FlagSet(a, flag) ==
    a \in DOMAIN assistants_processing /\ assistants_processing[a][flag]

\* C28: the slot of a start- or stop-processing signal for assistant a and
\* flag f leaves every flag other than f of a as it was.
C28_UpdateTouchesOneFlag ==
    [][(uiQueue # <<>> /\ uiQueue' = Tail(uiQueue)) =>
          LET r == Head(uiQueue).run
              a == runs[r].a
              f == IF runs[r].scheduled THEN "scheduled_task" ELSE "user_input"
          IN  \A b \in Assistants, g \in {"user_input", "scheduled_task"} :
                  (b # a \/ g # f) => (FlagSet(b, g)' = FlagSet(b, g))]_vars

\* C28 witness: the stop signal of an interactive run of an assistant was
\* handled while the scheduled flag of the assistant is set.
C28_Witness ==
    \E a \in Assistants :
        /\ \E r \in RunIds : runs[r].a = a /\ ~runs[r].scheduled /\ runs[r].ui = "done"
        /\ FlagSet(a, "scheduled_task") /\ ~FlagSet(a, "user_input")

\* C34: the input field is read-only whenever an assistant has a processing
\* flag set.
C34_ReadOnlyWhileProcessing ==
    (\E a \in Assistants : Processing(a)) => inputReadOnly

\* C35: the flag of an assistant for a kind of run is set exactly while the
\* window shows a run of the assistant of that kind as processing (its start
\* signal handled, its stop signal not yet).
C35_FlagWhileRunShown ==
    \A a \in Assistants, scheduled \in BOOLEAN :
        FlagSet(a, IF scheduled THEN "scheduled_task" ELSE "user_input") <=>
            \E r \in ShownRuns : runs[r].a = a /\ runs[r].scheduled = scheduled

\* C18: a cancel click sends cancel_processing only to assistants that have
\* a processing flag set or a run in flight.
C18_CancelOnlyInFlight ==
    [][nClicks' > nClicks =>
          \A a \in cancelTargets' : Processing(a) \/ RunOfAssistantInFlight(a)]_vars

(***************************************************************************)
(* Properties of the conversation view, checked under SpecView             *)
(***************************************************************************)
\* C16: a lifecycle callback for a thread that is not the displayed thread
\* leaves the conversation view unchanged.
C16_StaleSignalLeavesView ==
    [][(nSignals' > nSignals /\ lastSignal'.thread # displayed) => view' = view]_vars

\* C30: on_run_update for the displayed thread with status "streaming"
\* appends at most one chunk and does not fetch the transcript; with status
\* "in_progress" and a message it appends that message and does not fetch;
\* in every other case it fetches the transcript and replaces the view with
\* it exactly when the transcript has messages.
C30_UpdateDispatch ==
    [][\A thread \in Threads, run_status \in {"streaming", "in_progress", "completed"},
          message \in {"none", "text", "other"} :
          (IsCurrentConversationThread(thread) /\ OnRunUpdate(thread, run_status, message)) =>
              IF run_status = "streaming"
              THEN /\ ~effects'.fetched
                   /\ \/ view' = view
                      \/ view' = Append(view, Item(thread, "chunk", 0))
              ELSE IF run_status = "in_progress" /\ message # "none"
              THEN /\ ~effects'.fetched
                   /\ view' = Append(view, Item(thread, "message", Len(view) + 1))
              ELSE /\ effects'.fetched
                   /\ view' = IF transcript[thread] > 0 THEN Conversation(thread) ELSE view
      ]_vars

\* C30 witness: after an earlier callback, an update for the displayed
\* thread fetched the transcript, and the view holds its messages.
C30_Witness ==
    /\ lastSignal.kind = "update" /\ lastSignal.thread = displayed
    /\ effects.fetched
    /\ nSignals >= 2
    /\ view = Conversation(displayed) /\ Len(view) > 0

C27_StreamedRunShowsTranscript ==
    (streamed.phase = "ended" /\ streamed.stayed /\ transcript[streamed.thread] = 2) =>
        /\ streamed.ends = 1
        /\ view = Conversation(streamed.thread)

(***************************************************************************)
(* Properties of the attachment reconciliation, checked under SpecAttach   *)
(***************************************************************************)
\* C23: reconciling the same submitted set a second time in a row detaches
\* nothing, deletes nothing and leaves the thread's attachments as they are.
C23_ReconcileIdempotent ==
    lastReconcile.repeat =>
        /\ lastReconcile.detached = {}
        /\ lastReconcile.deleted = {}
        /\ lastReconcile.after = lastReconcile.existing

\* C23 witness: the second of two such calls was made on a thread with
\* attachments, after the first had detached one.
C23_Witness ==
    /\ lastReconcile.repeat
    /\ lastReconcile.first_detached
    /\ lastReconcile.existing # {}

\* C24: a reconciliation that ran to its end detached exactly the existing
\* attachments whose file id is not submitted, deleted exactly the files of
\* the detached attachments that are not images, and left the existing
\* attachments whose file id is submitted attached.
C24_ReconcileRemovesAbsent ==
    (lastReconcile.called /\ lastReconcile.completed) =>
        LET absent  == {att \in lastReconcile.existing :
                            att.file_id \notin lastReconcile.submitted}
            present == lastReconcile.existing \ absent
        IN  /\ lastReconcile.detached = absent
            /\ lastReconcile.deleted =
                  {att.file_id : att \in {d \in absent : d.attachment_type # "image_file"}}
            /\ lastReconcile.after = present
            /\ FileIds(present) \cap lastReconcile.deleted = {}

\* C24 witness: a reconciliation detached an image and kept a document whose
\* file id was submitted.
C24_Witness ==
    /\ lastReconcile.called /\ lastReconcile.completed
    /\ \E d \in lastReconcile.detached : d.attachment_type = "image_file"
    /\ \E k \in lastReconcile.after : k.attachment_type = "document_file"

C36_ListEnabledAfterTerminal ==
    (/\ lastTerminal.kind \in TerminalCallbacks
     /\ lastTerminal.realtime
     /\ RunsActive = {}) => ~assistantListDisabled

(***************************************************************************)
(* Properties of the callbacks' thread store, checked under SpecRunStore   *)
(***************************************************************************)
\* C37: a lifecycle callback of a run looks its thread up in the thread
\* store of the client type that was active when the run was submitted.
C37_CallbackUsesSubmissionStore ==
    lastResolve.run # 0 => lastResolve.store = submittedRuns[lastResolve.run].type

(***************************************************************************)
(* Properties of the assistant configuration dialog, checked under         *)
(* SpecDialog                                                              *)
(***************************************************************************)
\* C32: for every assistant type, selecting the Instructions Editor tab
\* copies the instructions of the configuration tab into the editor, and a
\* save while the Instructions Editor tab is current saves the text of the
\* editor (a text that is not empty) as the instructions.
C32_EditorTabCopiesAndSaves ==
    LET op == lastDialogOp
    IN  (op.op # "none" /\ op.index = InstructionsEditorIndex(op.assistant_type)) =>
            /\ op.op = "tab" => op.editor_after = op.instructions
            /\ (op.op = "save" /\ op.editor # 0) => op.saved = op.editor

(***************************************************************************)
(* Properties of the keyword recognizer, checked under SpecKeyword         *)
(***************************************************************************)
\* C33: a push_audio writes to the audio stream exactly when the last
\* start_recognition or stop_recognition that returned is a start, the
\* audio stream changes by a push_audio only, and at most one recognized
\* handler is connected.
C33_AudioWrittenOnlyWhileStarted ==
    [][/\ recognizer'.audio_stream # recognizer.audio_stream =>
             /\ kwHistory.listening
             /\ kwHistory'.pushed /\ kwHistory'.wrote
             /\ Len(recognizer'.audio_stream) = Len(recognizer.audio_stream) + 1
       /\ (kwHistory'.pushed /\ ~kwHistory.listening) =>
             recognizer'.audio_stream = recognizer.audio_stream
       /\ recognizer'.recognized <= 1]_vars

\* C33 witness: audio was written after a start, then a stop returned and a
\* push_audio was ignored, with no handler connected.
C33_Witness ==
    /\ recognizer.audio_stream # <<>>
    /\ ~kwHistory.listening
    /\ kwHistory.pushed /\ ~kwHistory.wrote
    /\ recognizer.recognized = 0

Init ==
    InitStream /\ InitSched /\ InitSubmit /\ InitProcessing /\ InitView /\ InitAttach
    /\ InitClientType /\ InitAssistantList /\ InitRunStore /\ InitDialog /\ InitKeyword

SpecStream == Init /\ [][NextStream]_vars

SpecSched == Init /\ [][NextSched]_vars

SpecSubmit == Init /\ [][NextSubmit]_vars

SpecProcessing == Init /\ [][NextProcessing]_vars

SpecView == Init /\ [][NextView]_vars

SpecAttach == Init /\ [][NextAttach]_vars

SpecClientType == Init /\ [][NextClientType]_vars

SpecRunUpdate == Init /\ [][NextRunUpdate]_vars

SpecStreamedRun == Init /\ [][NextStreamedRun]_vars

SpecAssistantList == Init /\ [][NextAssistantList]_vars

SpecRunStore == Init /\ [][NextRunStore]_vars

SpecDialog == Init /\ [][NextDialog]_vars

SpecKeyword == Init /\ [][NextKeyword]_vars

====
